---- MODULE Spec2Model ----
(***************************************************************************)
(* EV charging simulation engine (bel7aG/ev-simulation, src/lib/simulation)*)
(*                                                                         *)
(* Numbers.  Energies are integers in units of 0.0001 kWh (ENERGY_SCALE    *)
(* units per kWh), so the 0.0001 kWh tolerance of isFullyCharged is 1 unit,*)
(* one tick's delivery 11 kW * (1/4) h is 27500 units and 18 kWh/100km is  *)
(* 1800 units per km.  Probabilities are integers in units of 0.0001.  A   *)
(* value returned by SeededRandom.next() is the fraction                   *)
(* value / 2147483646 and is kept as its numerator.  Every threshold of    *)
(* the configured tables falls strictly between two such fractions, so the *)
(* exact comparisons below decide as the floating-point ones do.           *)
(*                                                                         *)
(* Objects.  ElectricVehicle objects live in a heap (a sequence); a        *)
(* reference is the position in the heap and NULL is 0.  Two engines exist *)
(* side by side so that runs can be compared; every field of an engine is  *)
(* a function of the engine's index.                                       *)
(***************************************************************************)
EXTENDS Integers, Sequences, FiniteSets, TLC

\* ---------------------------------------------------------------- bounds
MaxSeed == 26
MinSeed == 2
MaxChargepoints == 3
MaxTicks == 9
MaxStationSize == 2
MaxDraws == 20

\* ------------------------------------------------------- config.ts
POWER_PER_CHARGEPOINT_KW == 11
DAYS_IN_YEAR == 365
TICKS_PER_HOUR == 4
HOURS_PER_DAY == 24
TOTAL_TICKS_PER_YEAR == DAYS_IN_YEAR * HOURS_PER_DAY * TICKS_PER_HOUR
KWH_PER_100KM == 18
DEFAULT_SIMULATION_SEED == 12345

\* units of 0.0001 kWh per kWh, and units of 0.0001 per unit of probability
ENERGY_SCALE == 10000
PROB_SCALE == 10000

\* hour h of the day is entry h + 1
ARRIVAL_PROBABILITY_PER_HOUR_T1 ==
  << 94, 94, 94, 94, 94, 94, 94, 94, 283, 283, 566, 566, 566, 755, 755, 755,
     1038, 1038, 1038, 472, 472, 472, 94, 94 >>

CHARGING_DEMAND_KM_DISTRIBUTION_T2 ==
  << [value |-> 0,   probability |-> 3431],
     [value |-> 5,   probability |-> 490],
     [value |-> 10,  probability |-> 980],
     [value |-> 20,  probability |-> 1176],
     [value |-> 30,  probability |-> 882],
     [value |-> 50,  probability |-> 1176],
     [value |-> 100, probability |-> 1078],
     [value |-> 200, probability |-> 490],
     [value |-> 300, probability |-> 294] >>

VERBOSE_DEFAULT_ENABLED == FALSE

\* ------------------------------------------------------- random.ts
LCG_MODULUS == 2147483647
LCG_MULTIPLIER == 16807
RAND_DENOMINATOR == 2147483646

\* JavaScript's %: the result has the sign of the dividend.
JsRem(a, b) == IF a >= 0 THEN a % b ELSE -((-a) % b)

\* new SeededRandom(seed): the register after construction.
SeededRandom(seedArg) ==
  LET s == JsRem(seedArg, LCG_MODULUS)
  IN  IF s <= 0 THEN s + RAND_DENOMINATOR ELSE s

\* (s * 16807) % 2147483647, evaluated without leaving 32 bits (Schrage):
\* with q = m div a and r = m mod a, a*s mod m = a*(s mod q) - r*(s div q),
\* plus m when that is negative.  Equal to the product's remainder for every
\* register 0 <= s < m.
MulMod(s) ==
  LET q == LCG_MODULUS \div LCG_MULTIPLIER
      r == LCG_MODULUS % LCG_MULTIPLIER
      t == LCG_MULTIPLIER * (s % q) - r * (s \div q)
  IN  IF s < 0 THEN -(LET u == LCG_MULTIPLIER * ((-s) % q) - r * ((-s) \div q)
                      IN  IF u < 0 THEN u + LCG_MODULUS ELSE u)
      ELSE IF t < 0 THEN t + LCG_MODULUS ELSE t

\* next() returning this.seed / 2147483646
next_ReturnsRegister(s) ==
  LET s2 == MulMod(s)
  IN  [seed |-> s2, value |-> s2]

\* next(): the new register and the returned value's numerator over
\* RAND_DENOMINATOR.
next(s) ==
  LET s2 == MulMod(s)
  IN  [seed |-> s2, value |-> s2 - 1]

\* value / RAND_DENOMINATOR < num / den, for 0 <= num <= den, den * den < 2^31.
RandLess(value, num, den) ==
  LET q == RAND_DENOMINATOR \div den
      r == RAND_DENOMINATOR % den
      d == value - num * q
  IN  \/ d < 0
      \/ d <= r /\ d * den < num * r

\* Math.floor((value / RAND_DENOMINATOR) * k) for -1 <= value < RAND_DENOMINATOR
\* and 1 <= k: the number of r in 1 .. k-1 with r * RAND_DENOMINATOR <= value * k,
\* that is with value >= ceil(r * RAND_DENOMINATOR / k); -1 for the negative
\* fraction -1 / RAND_DENOMINATOR.  The products stay within 32 bits.
floorScaled(value, k) ==
  LET q == RAND_DENOMINATOR \div k
      r == RAND_DENOMINATOR % k
  IN  IF value < 0 THEN -1
      ELSE Cardinality({j \in 1 .. k - 1 : value >= j * q + (j * r + k - 1) \div k})

\* nextInt(min, max): the new register and the returned integer.
nextInt(s, min, max) ==
  LET d == next(s)
  IN  [seed |-> d.seed, value |-> floorScaled(d.value, max - min) + min]

\* ------------------------------------------------------- ev.ts
NULL == 0

\* new ElectricVehicle(id, energyNeededKwh)
ElectricVehicle(id, energyNeededKwh) ==
  [id |-> id, energyNeededKwh |-> energyNeededKwh, energyReceivedKwh |-> 0]

Min(a, b) == IF a <= b THEN a ELSE b

\* charge() without the Math.min clamp
charge_Unclamped(ev, energyKwh) ==
  [ev  |-> [ev EXCEPT !.energyReceivedKwh = @ + energyKwh],
   ret |-> energyKwh]

\* charge() returning energyKwh instead of actualEnergyReceived
charge_ReturnsRequested(ev, energyKwh) ==
  LET energyCanReceive == ev.energyNeededKwh - ev.energyReceivedKwh
      actualEnergyReceived == Min(energyKwh, energyCanReceive)
  IN  [ev  |-> [ev EXCEPT !.energyReceivedKwh = @ + actualEnergyReceived],
       ret |-> energyKwh]

\* ev.charge(energyKwh): the vehicle after the call and the returned amount.
charge(ev, energyKwh) ==
  LET energyCanReceive == ev.energyNeededKwh - ev.energyReceivedKwh
      actualEnergyReceived == Min(energyKwh, energyCanReceive)
  IN  [ev  |-> [ev EXCEPT !.energyReceivedKwh = @ + actualEnergyReceived],
       ret |-> actualEnergyReceived]

\* 0.0001 kWh is 1 unit
FULL_CHARGE_EPSILON == 1

\* isFullyCharged() without the tolerance
isFullyCharged_NoTolerance(ev) ==
  ev.energyReceivedKwh >= ev.energyNeededKwh

isFullyCharged(ev) ==
  ev.energyReceivedKwh >= ev.energyNeededKwh - FULL_CHARGE_EPSILON

\* ------------------------------------------------------- distributions.ts
RECURSIVE walkDistribution_NoRunningSum(_, _, _, _)
\* the for-loop with = for +=
walkDistribution_NoRunningSum(distribution, rand, i, cumulativeProbability) ==
  IF i > Len(distribution) THEN 0
  ELSE LET c == distribution[i].probability
       IN  IF RandLess(rand, c, PROB_SCALE) THEN i
           ELSE walkDistribution_NoRunningSum(distribution, rand, i + 1, c)

RECURSIVE walkDistribution(_, _, _, _)
\* the for-loop of getWeightedRandomChoice from entry i on, with the running
\* sum before entry i; 0 when no entry triggers
walkDistribution(distribution, rand, i, cumulativeProbability) ==
  IF i > Len(distribution) THEN 0
  ELSE LET c == cumulativeProbability + distribution[i].probability
       IN  IF RandLess(rand, c, PROB_SCALE) THEN i
           ELSE walkDistribution(distribution, rand, i + 1, c)

\* getWeightedRandomChoice with  rand = next()  above the emptiness test
getWeightedRandomChoice_DrawsFirst(distribution, s) ==
  LET d == next(s)
      i == walkDistribution(distribution, d.value, 1, 0)
  IN  IF Len(distribution) = 0
      THEN [threw |-> TRUE, value |-> 0, seed |-> d.seed, rand |-> d.value,
            draws |-> 1]
      ELSE [threw |-> FALSE,
            value |-> IF i = 0 THEN distribution[Len(distribution)].value
                      ELSE distribution[i].value,
            seed  |-> d.seed, rand |-> d.value, draws |-> 1]

\* getWeightedRandomChoice with a second next() on the fallback path
getWeightedRandomChoice_FallbackDraws(distribution, s) ==
  IF Len(distribution) = 0
  THEN [threw |-> TRUE, value |-> 0, seed |-> s, rand |-> 0,
        draws |-> 0]
  ELSE LET d == next(s)
           i == walkDistribution(distribution, d.value, 1, 0)
       IN  [threw |-> FALSE,
            value |-> IF i = 0 THEN distribution[Len(distribution)].value
                      ELSE distribution[i].value,
            seed  |-> IF i = 0 THEN next(d.seed).seed ELSE d.seed,
            rand  |-> d.value,
            draws |-> IF i = 0 THEN 2 ELSE 1]

\* getWeightedRandomChoice(distribution, randomGenerator): whether it threw,
\* the value returned, the generator's register afterwards, the local rand
\* (0 when the call threw before drawing) and the number of next() calls made.
getWeightedRandomChoice(distribution, s) ==
  IF Len(distribution) = 0
  THEN [threw |-> TRUE, value |-> 0, seed |-> s, rand |-> 0,
        draws |-> 0]
  ELSE LET d == next(s)
           i == walkDistribution(distribution, d.value, 1, 0)
       IN  [threw |-> FALSE,
            value |-> IF i = 0 THEN distribution[Len(distribution)].value
                      ELSE distribution[i].value,
            seed  |-> d.seed,
            rand  |-> d.value,
            draws |-> 1]

\* ------------------------------------------------------- station.ts
\* new Chargepoint(id, ...)
Chargepoint(id) ==
  [id |-> id, powerKw |-> POWER_PER_CHARGEPOINT_KW, currentEV |-> NULL]

\* the constructor's loop with i <= numChargepoints
ChargingStation_OffByOne(n) == [i \in 0 .. n |-> Chargepoint(i)]

\* new ChargingStation(numChargepoints, ...): chargepoints 0 .. n-1
ChargingStation(n) == [i \in 0 .. n - 1 |-> Chargepoint(i)]

isAvailable(cp) == cp.currentEV = NULL

\* releaseEV() that leaves currentEV alone
releaseEV_KeepsVehicle(cp) == cp

\* cp.releaseEV()
releaseEV(cp) ==
  IF cp.currentEV # NULL THEN [cp EXCEPT !.currentEV = NULL] ELSE cp

\* assignEV() without the isAvailable() test
assignEV_IgnoresBusy(cp, ev, heap) ==
  IF ev = NULL \/ heap[ev].energyNeededKwh <= 0
  THEN [cp |-> cp, ret |-> FALSE, threw |-> FALSE]
  ELSE [cp |-> [cp EXCEPT !.currentEV = ev], ret |-> TRUE, threw |-> FALSE]

\* cp.assignEV(ev), ev a reference into heap or NULL: the chargepoint after
\* the call, the returned flag, and whether the call threw (the message of
\* the busy branch reads ev.id before _log looks at the verbose flag).
assignEV(cp, ev, heap) ==
  IF ~isAvailable(cp)
  THEN [cp |-> cp, ret |-> FALSE, threw |-> ev = NULL]
  ELSE IF ev = NULL \/ heap[ev].energyNeededKwh = 0
                    \/ heap[ev].energyNeededKwh <= 0
       THEN [cp |-> cp, ret |-> FALSE, threw |-> FALSE]
       ELSE [cp |-> [cp EXCEPT !.currentEV = ev], ret |-> TRUE, threw |-> FALSE]

\* this.powerKw * (1 / TICKS_PER_HOUR), in energy units
energyDeliverableThisTick(cp) == (cp.powerKw * ENERGY_SCALE) \div TICKS_PER_HOUR

\* processChargingTick() returning the deliverable energy when idle
processChargingTick_IdleReturnsRate(cp, heap) ==
  IF isAvailable(cp)
  THEN [cp |-> cp, heap |-> heap, ret |-> energyDeliverableThisTick(cp)]
  ELSE LET c     == charge(heap[cp.currentEV], energyDeliverableThisTick(cp))
           heap2 == [heap EXCEPT ![cp.currentEV] = c.ev]
       IN  [cp   |-> IF isFullyCharged(c.ev) THEN releaseEV(cp) ELSE cp,
            heap |-> heap2,
            ret  |-> c.ret]

\* processChargingTick() without the isFullyCharged() test and the release
processChargingTick_NoRelease(cp, heap) ==
  IF isAvailable(cp)
  THEN [cp |-> cp, heap |-> heap, ret |-> 0]
  ELSE LET c     == charge(heap[cp.currentEV], energyDeliverableThisTick(cp))
           heap2 == [heap EXCEPT ![cp.currentEV] = c.ev]
       IN  [cp |-> cp, heap |-> heap2, ret |-> c.ret]

\* processChargingTick() with the isFullyCharged() test made on entry, before
\* charge(), so that a vehicle is released one call after its last delivery
processChargingTick_ReleaseBeforeCharge(cp, heap) ==
  IF isAvailable(cp)
  THEN [cp |-> cp, heap |-> heap, ret |-> 0]
  ELSE IF isFullyCharged(heap[cp.currentEV])
       THEN [cp |-> releaseEV(cp), heap |-> heap, ret |-> 0]
       ELSE LET c == charge(heap[cp.currentEV], energyDeliverableThisTick(cp))
            IN  [cp |-> cp, heap |-> [heap EXCEPT ![cp.currentEV] = c.ev],
                 ret |-> c.ret]

\* cp.processChargingTick(): the chargepoint and the heap after the call and
\* the returned energy.
processChargingTick(cp, heap) ==
  IF isAvailable(cp)
  THEN [cp |-> cp, heap |-> heap, ret |-> 0]
  ELSE LET c     == charge(heap[cp.currentEV], energyDeliverableThisTick(cp))
           heap2 == [heap EXCEPT ![cp.currentEV] = c.ev]
       IN  [cp   |-> IF isFullyCharged(c.ev) THEN releaseEV(cp) ELSE cp,
            heap |-> heap2,
            ret  |-> c.ret]

NO_CHARGEPOINT == -1

RECURSIVE findFrom(_, _)
\* Array.prototype.find from index i on
findFrom(cps, i) ==
  IF i \notin DOMAIN cps THEN NO_CHARGEPOINT
  ELSE IF isAvailable(cps[i]) THEN i
  ELSE findFrom(cps, i + 1)

\* findLast instead of find
findAvailableChargepoint_LastFit(cps) ==
  LET idle == {i \in DOMAIN cps : isAvailable(cps[i])}
  IN  IF idle = {} THEN NO_CHARGEPOINT
      ELSE CHOOSE i \in idle : \A j \in idle : i >= j

\* station.findAvailableChargepoint(): the id of the chargepoint returned,
\* NO_CHARGEPOINT for null.
findAvailableChargepoint(cps) == findFrom(cps, 0)

\* ------------------------------------------------------- statistics.ts
\* new SimulationStatistics()
SimulationStatistics ==
  [totalEnergyConsumedKwh |-> 0, actualMaxPowerDemandKw |-> 0]

\* recordTickData() with = for +=
recordTickData_Overwrites(st, energyThisTickKwh, powerDemandThisTickKw) ==
  [totalEnergyConsumedKwh |-> energyThisTickKwh,
   actualMaxPowerDemandKw |->
     IF powerDemandThisTickKw > st.actualMaxPowerDemandKw
     THEN powerDemandThisTickKw ELSE st.actualMaxPowerDemandKw]

\* recordTickData() without the comparison
recordTickData_LastPower(st, energyThisTickKwh, powerDemandThisTickKw) ==
  [totalEnergyConsumedKwh |-> st.totalEnergyConsumedKwh + energyThisTickKwh,
   actualMaxPowerDemandKw |-> powerDemandThisTickKw]

\* recordTickData() with < for >
recordTickData_KeepsSmaller(st, energyThisTickKwh, powerDemandThisTickKw) ==
  [totalEnergyConsumedKwh |-> st.totalEnergyConsumedKwh + energyThisTickKwh,
   actualMaxPowerDemandKw |->
     IF powerDemandThisTickKw < st.actualMaxPowerDemandKw
     THEN powerDemandThisTickKw ELSE st.actualMaxPowerDemandKw]

\* recordTickData() adding the tick's power demand to the maximum
recordTickData_SumsPower(st, energyThisTickKwh, powerDemandThisTickKw) ==
  [totalEnergyConsumedKwh |-> st.totalEnergyConsumedKwh + energyThisTickKwh,
   actualMaxPowerDemandKw |-> st.actualMaxPowerDemandKw + powerDemandThisTickKw]

\* stats.recordTickData(energyThisTickKwh, powerDemandThisTickKw)
recordTickData(st, energyThisTickKwh, powerDemandThisTickKw) ==
  [totalEnergyConsumedKwh |-> st.totalEnergyConsumedKwh + energyThisTickKwh,
   actualMaxPowerDemandKw |->
     IF powerDemandThisTickKw > st.actualMaxPowerDemandKw
     THEN powerDemandThisTickKw ELSE st.actualMaxPowerDemandKw]

\* ------------------------------------------------------- index.ts
\* an option of SimulationOptions: << >> when undefined, << v >> when given
OptionOr(opt, default) == IF opt = << >> THEN default ELSE opt[1]

\* Math.floor(tick / TICKS_PER_HOUR), without the % of a day's ticks
currentHour_NoWrap(t) == t \div TICKS_PER_HOUR

\* Math.floor((tick % (HOURS_PER_DAY * TICKS_PER_HOUR)) / TICKS_PER_HOUR)
currentHour(t) == (t % (HOURS_PER_DAY * TICKS_PER_HOUR)) \div TICKS_PER_HOUR

\* next() < hourlyArrivalProb, without the division by TICKS_PER_HOUR
arrivalEvent_Hourly(value, hour) ==
  RandLess(value, ARRIVAL_PROBABILITY_PER_HOUR_T1[hour + 1], PROB_SCALE)

\* this.randomGenerator.next() < hourlyArrivalProb / TICKS_PER_HOUR
arrivalEvent(value, hour) ==
  RandLess(value, ARRIVAL_PROBABILITY_PER_HOUR_T1[hour + 1],
           PROB_SCALE * TICKS_PER_HOUR)

\* (demandKm / 100) * KWH_PER_100KM, in energy units
energyNeededFor(demandKm) == (demandKm * KWH_PER_100KM * ENERGY_SCALE) \div 100

\* this.nextEvId for this.nextEvId++
acceptArrival_ReusesId(cp, heap, nextId, energyNeededKwh) ==
  LET heap1 == Append(heap, ElectricVehicle(nextId, energyNeededKwh))
      newEV == Len(heap1)
      a     == assignEV(cp, newEV, heap1)
      p     == processChargingTick(a.cp, heap1)
  IN  IF a.ret
      THEN [cp |-> p.cp, heap |-> p.heap, nextEvId |-> nextId,
            energyDelivered |-> p.ret, threw |-> FALSE]
      ELSE [cp |-> a.cp, heap |-> heap1, nextEvId |-> nextId,
            energyDelivered |-> 0, threw |-> a.threw]

\* ++this.nextEvId for this.nextEvId++
acceptArrival_PreIncrement(cp, heap, nextId, energyNeededKwh) ==
  LET heap1 == Append(heap, ElectricVehicle(nextId + 1, energyNeededKwh))
      newEV == Len(heap1)
      a     == assignEV(cp, newEV, heap1)
      p     == processChargingTick(a.cp, heap1)
  IN  IF a.ret
      THEN [cp |-> p.cp, heap |-> p.heap, nextEvId |-> nextId + 1,
            energyDelivered |-> p.ret, threw |-> FALSE]
      ELSE [cp |-> a.cp, heap |-> heap1, nextEvId |-> nextId + 1,
            energyDelivered |-> 0, threw |-> a.threw]

\* the delivery made twice: once after assignEV and once as for a
\* chargepoint that was occupied
acceptArrival_DeliversTwice(cp, heap, nextId, energyNeededKwh) ==
  LET heap1 == Append(heap, ElectricVehicle(nextId, energyNeededKwh))
      newEV == Len(heap1)
      a     == assignEV(cp, newEV, heap1)
      p     == processChargingTick(a.cp, heap1)
      p2    == processChargingTick(p.cp, p.heap)
  IN  IF a.ret
      THEN [cp |-> p2.cp, heap |-> p2.heap, nextEvId |-> nextId + 1,
            energyDelivered |-> p.ret + p2.ret, threw |-> FALSE]
      ELSE [cp |-> a.cp, heap |-> heap1, nextEvId |-> nextId + 1,
            energyDelivered |-> 0, threw |-> a.threw]

\* processChargingTick() called before assignEV instead of after it
acceptArrival_DeliversBeforeAssign(cp, heap, nextId, energyNeededKwh) ==
  LET heap1 == Append(heap, ElectricVehicle(nextId, energyNeededKwh))
      newEV == Len(heap1)
      p     == processChargingTick(cp, heap1)
      a     == assignEV(p.cp, newEV, p.heap)
  IN  [cp |-> a.cp, heap |-> p.heap, nextEvId |-> nextId + 1,
       energyDelivered |-> p.ret, threw |-> a.threw]

\* The body of  if (energyNeededKwh > 0)  in run(): a vehicle is created with
\* the next id, assigned, and given this tick's delivery.
acceptArrival(cp, heap, nextId, energyNeededKwh) ==
  LET heap1 == Append(heap, ElectricVehicle(nextId, energyNeededKwh))
      newEV == Len(heap1)
      a     == assignEV(cp, newEV, heap1)
      p     == processChargingTick(a.cp, heap1)
  IN  IF a.ret
      THEN [cp |-> p.cp, heap |-> p.heap, nextEvId |-> nextId + 1,
            energyDelivered |-> p.ret, threw |-> FALSE]
      ELSE [cp |-> a.cp, heap |-> heap1, nextEvId |-> nextId + 1,
            energyDelivered |-> 0, threw |-> a.threw]

\* the iteration with  if (energyNeededKwh >= 0)
chargepointIteration_AcceptsZero(cp, heap, s, nextId, hour) ==
  LET same == [cp |-> cp, heap |-> heap, seed |-> s, nextEvId |-> nextId,
               energyDelivered |-> 0, draws |-> 0, threw |-> FALSE]
  IN
  IF isAvailable(cp)
  THEN LET d == next(s)
       IN  IF arrivalEvent(d.value, hour)
           THEN LET w == getWeightedRandomChoice(CHARGING_DEMAND_KM_DISTRIBUTION_T2, d.seed)
                    energyNeededKwh == energyNeededFor(w.value)
                    r == acceptArrival(cp, heap, nextId, energyNeededKwh)
                IN  IF w.threw
                    THEN [same EXCEPT !.seed = w.seed, !.draws = 1, !.threw = TRUE]
                    ELSE IF energyNeededKwh >= 0
                    THEN [cp |-> r.cp, heap |-> r.heap, seed |-> w.seed,
                          nextEvId |-> r.nextEvId,
                          energyDelivered |-> r.energyDelivered, draws |-> 2,
                          threw |-> r.threw]
                    ELSE [same EXCEPT !.seed = w.seed, !.draws = 2]
           ELSE [same EXCEPT !.seed = d.seed, !.draws = 1]
  ELSE LET p == processChargingTick(cp, heap)
       IN  [same EXCEPT !.cp = p.cp, !.heap = p.heap, !.energyDelivered = p.ret]

\* the iteration with the arrival roll offered after processChargingTick to
\* a chargepoint that has just released its vehicle
chargepointIteration_RollsAfterRelease(cp, heap, s, nextId, hour) ==
  LET p    == processChargingTick(cp, heap)
      same == [cp |-> p.cp, heap |-> p.heap, seed |-> s, nextEvId |-> nextId,
               energyDelivered |-> p.ret, draws |-> 0, threw |-> FALSE]
  IN
  IF isAvailable(p.cp)
  THEN LET d == next(s)
       IN  IF arrivalEvent(d.value, hour)
           THEN LET w == getWeightedRandomChoice(CHARGING_DEMAND_KM_DISTRIBUTION_T2, d.seed)
                    energyNeededKwh == energyNeededFor(w.value)
                    r == acceptArrival(p.cp, p.heap, nextId, energyNeededKwh)
                IN  IF w.threw
                    THEN [same EXCEPT !.seed = w.seed, !.draws = 1, !.threw = TRUE]
                    ELSE IF energyNeededKwh > 0
                    THEN [cp |-> r.cp, heap |-> r.heap, seed |-> w.seed,
                          nextEvId |-> r.nextEvId,
                          energyDelivered |-> p.ret + r.energyDelivered,
                          draws |-> 2, threw |-> r.threw]
                    ELSE [same EXCEPT !.seed = w.seed, !.draws = 2]
           ELSE [same EXCEPT !.seed = d.seed, !.draws = 1]
  ELSE same

\* One iteration of the chargepoint loop of run(), up to the power-demand
\* test: the chargepoint, the heap, the generator's register and the id
\* counter afterwards, the energy added to this tick's total, the number of
\* next() calls made, and whether a call threw.
chargepointIteration(cp, heap, s, nextId, hour) ==
  LET same == [cp |-> cp, heap |-> heap, seed |-> s, nextEvId |-> nextId,
               energyDelivered |-> 0, draws |-> 0, threw |-> FALSE]
  IN
  IF isAvailable(cp)
  THEN LET d == next(s)
       IN  IF arrivalEvent(d.value, hour)
           THEN LET w == getWeightedRandomChoice(CHARGING_DEMAND_KM_DISTRIBUTION_T2, d.seed)
                    energyNeededKwh == energyNeededFor(w.value)
                    r == acceptArrival(cp, heap, nextId, energyNeededKwh)
                IN  IF w.threw
                    THEN [same EXCEPT !.seed = w.seed, !.draws = 1, !.threw = TRUE]
                    ELSE IF energyNeededKwh > 0
                    THEN [cp |-> r.cp, heap |-> r.heap, seed |-> w.seed,
                          nextEvId |-> r.nextEvId,
                          energyDelivered |-> r.energyDelivered, draws |-> 2,
                          threw |-> r.threw]
                    ELSE [same EXCEPT !.seed = w.seed, !.draws = 2]
           ELSE [same EXCEPT !.seed = d.seed, !.draws = 1]
  ELSE LET p == processChargingTick(cp, heap)
       IN  [same EXCEPT !.cp = p.cp, !.heap = p.heap, !.energyDelivered = p.ret]

\* ------------------------------------------------------------------ state
Engines == {1, 2}

VARIABLES
  numChargepoints,               \* [e]  EVChargingSimulation.numChargepoints
  verbose,                       \* [e]  EVChargingSimulation.verbose
  maxTicksToSimulate,            \* [e]  EVChargingSimulation.maxTicksToSimulate
  seed,                          \* [g]  SeededRandom.seed of generator g
  draws,                         \* [g]  number of next() calls made on generator g
  chargepoints,                  \* [e]  station.chargepoints
  evs,                           \* [e]  the ElectricVehicle objects created, in creation order
  stats,                         \* [e]  EVChargingSimulation.stats
  currentTick,                   \* [e]  currentTickRef.value
  nextEvId,                      \* [e]  EVChargingSimulation.nextEvId
  pc,                            \* [e]  where run() is
  tick,                          \* [e]  run(): tick
  cpIndex,                       \* [e]  run(): position of the chargepoint loop
  totalEnergyDeliveredThisTick,  \* [e]  run(): local
  currentPowerDemandThisTick,    \* [e]  run(): local
  occupancy,                     \* [e]  the station's occupancy after each chargepoint iteration so far
  created,                       \* [e]  the id of the vehicle created in each chargepoint iteration so far, 0 if none
  consoleLines,                  \* [e]  number of console.log calls made by the engine and its chargepoints
  lastCall                       \* the last call made by a direct caller of the classes

configVars == << numChargepoints, verbose, maxTicksToSimulate >>
rngVars    == << seed, draws >>
objVars    == << chargepoints, evs >>
runVars    == << pc, tick, cpIndex, totalEnergyDeliveredThisTick,
                 currentPowerDemandThisTick, currentTick, nextEvId, stats,
                 occupancy, created, consoleLines >>
vars == << configVars, rngVars, objVars, runVars, lastCall >>

\* one generator shared by all engines
randomGenerator_Shared(e) == 1

\* the generator of engine e: each engine constructs its own
randomGenerator(e) == e

\* which vehicle id each chargepoint holds (0 when idle)
occupancyOf(cps, heap) ==
  [i \in DOMAIN cps |-> IF cps[i].currentEV = NULL THEN 0
                        ELSE heap[cps[i].currentEV].id]

\* the id of the vehicle that a chargepoint iteration taking the heap from
\* before to after created with  new ElectricVehicle(this.nextEvId++, ...),
\* 0 if it created none
createdIn(before, after) ==
  IF Len(after) > Len(before) THEN after[Len(after)].id ELSE 0

\* a call by a direct caller: the method, the chargepoint and the vehicle
\* reference it was given, the boolean or the number it returned, and whether
\* it threw
Call(op, cp, ev, flag, value, threw) ==
  [op |-> op, cp |-> cp, ev |-> ev, flag |-> flag, value |-> value, threw |-> threw]

NoCall == Call("none", NO_CHARGEPOINT, NULL, FALSE, 0, FALSE)

SeedOptions == { << >> } \cup { << s >> : s \in (0 - MinSeed) .. MaxSeed }

\* if (this.verbose) console.log(...), as often as lines says
consoleLog(verboseFlag, lines) == IF verboseFlag THEN lines ELSE 0

\* new EVChargingSimulation(n, {seed, maxTicks, verbose}) once per engine,
\* with the same n, seed and maxTicks and with verbose as verboseOpts gives
\* it for each engine; callerVehicles are the vehicles a direct caller of the
\* classes has made.  A verbose constructor logs one line.
ConstructWith(n, seedOpt, maxTicksOpt, verboseOpts, callerVehicles) ==
  /\ numChargepoints = [e \in Engines |-> n]
  /\ verbose = [e \in Engines |-> OptionOr(verboseOpts[e], VERBOSE_DEFAULT_ENABLED)]
  /\ maxTicksToSimulate = [e \in Engines |-> OptionOr(maxTicksOpt, TOTAL_TICKS_PER_YEAR)]
  /\ seed = [g \in Engines |-> SeededRandom(OptionOr(seedOpt, DEFAULT_SIMULATION_SEED))]
  /\ draws = [g \in Engines |-> 0]
  /\ chargepoints = [e \in Engines |-> ChargingStation(n)]
  /\ evs = [e \in Engines |-> IF e = 1 THEN callerVehicles ELSE << >>]
  /\ stats = [e \in Engines |-> SimulationStatistics]
  /\ currentTick = [e \in Engines |-> 0]
  /\ nextEvId = [e \in Engines |-> 1]
  /\ pc = [e \in Engines |-> "ready"]
  /\ tick = [e \in Engines |-> 0]
  /\ cpIndex = [e \in Engines |-> 0]
  /\ totalEnergyDeliveredThisTick = [e \in Engines |-> 0]
  /\ currentPowerDemandThisTick = [e \in Engines |-> 0]
  /\ occupancy = [e \in Engines |-> << >>]
  /\ created = [e \in Engines |-> << >>]
  /\ consoleLines = [e \in Engines |->
                       consoleLog(OptionOr(verboseOpts[e], VERBOSE_DEFAULT_ENABLED), 1)]
  /\ lastCall = NoCall

\* new EVChargingSimulation(n, {seed, maxTicks}) twice, same arguments,
\* verbose not given
Construct(n, seedOpt, maxTicksOpt, callerVehicles) ==
  ConstructWith(n, seedOpt, maxTicksOpt, [e \in Engines |-> << >>], callerVehicles)

Init ==
  \E n \in 0 .. MaxChargepoints, seedOpt \in SeedOptions, t \in 0 .. MaxTicks :
    Construct(n, seedOpt, << t >>, << >>)

\* ------------------------------------------------------------ run()
Running(e) == pc[e] \in {"loop", "chargepoints"}

\* run() is entered; it is synchronous, so no other run is in progress
CanRunBegin(e) == pc[e] = "ready" /\ \A o \in Engines : ~Running(o)

RunBegin(e) ==
  /\ CanRunBegin(e)
  /\ pc' = [pc EXCEPT ![e] = "loop"]
  /\ tick' = [tick EXCEPT ![e] = 0]
  /\ UNCHANGED << configVars, rngVars, objVars, cpIndex,
                  totalEnergyDeliveredThisTick, currentPowerDemandThisTick,
                  currentTick, nextEvId, stats, occupancy, created,
                  consoleLines, lastCall >>

\* the loop test with  tick < this.maxTicksToSimulate - 1
CanTickBegin_StopsEarly(e) == pc[e] = "loop" /\ tick[e] < maxTicksToSimulate[e] - 1

\* tick > 0 && tick % (TICKS_PER_HOUR * HOURS_PER_DAY * 30) === 0
progressDue(t) == t > 0 /\ t % (TICKS_PER_HOUR * HOURS_PER_DAY * 30) = 0

\* the loop test succeeds; the head of the tick's body: the tick reference,
\* the locals, the progress line of a quiet run and _logSim's line
CanTickBegin(e) == pc[e] = "loop" /\ tick[e] < maxTicksToSimulate[e]

TickBegin(e) ==
  /\ CanTickBegin(e)
  /\ currentTick' = [currentTick EXCEPT ![e] = tick[e]]
  /\ totalEnergyDeliveredThisTick' = [totalEnergyDeliveredThisTick EXCEPT ![e] = 0]
  /\ currentPowerDemandThisTick' = [currentPowerDemandThisTick EXCEPT ![e] = 0]
  /\ cpIndex' = [cpIndex EXCEPT ![e] = 0]
  /\ pc' = [pc EXCEPT ![e] = "chargepoints"]
  /\ consoleLines' = [consoleLines EXCEPT ![e] =
                        @ + consoleLog(~verbose[e] /\ progressDue(tick[e]), 1)
                          + consoleLog(verbose[e], 1)]
  /\ UNCHANGED << configVars, rngVars, objVars, tick, nextEvId, stats,
                  occupancy, created, lastCall >>

\* the messages processChargingTick hands to _log: one when energy was
\* delivered and one when the vehicle was released
chargingMessages(cpAfter, energyDelivered) ==
  (IF energyDelivered > 0 THEN 1 ELSE 0) + (IF isAvailable(cpAfter) THEN 1 ELSE 0)

\* the messages handed to _logSim and _log in an iteration that took cp and
\* heap to the result r of chargepointIteration: on an arrival _logSim's line
\* and then either assignEV's and processChargingTick's or the 0 km line; on
\* an occupied chargepoint processChargingTick's
iterationMessages(cp, heap, r) ==
  IF ~isAvailable(cp) THEN chargingMessages(r.cp, r.energyDelivered)
  ELSE IF r.draws < 2 \/ r.threw THEN 0
  ELSE IF Len(r.heap) > Len(heap)
       THEN 2 + chargingMessages(r.cp, r.energyDelivered)
       ELSE 2

\* one iteration of  for (const chargepoint of this.station.chargepoints)
CanProcessChargepoint(e) ==
  pc[e] = "chargepoints" /\ cpIndex[e] \in DOMAIN chargepoints[e]

\* the power-demand test made on the energy delivered in the visit instead
\* of on the chargepoint being occupied after it
ProcessChargepoint_DemandOnDelivery(e) ==
  /\ CanProcessChargepoint(e)
  /\ LET i  == cpIndex[e]
         g  == randomGenerator(e)
         r  == chargepointIteration(chargepoints[e][i], evs[e], seed[g],
                                    nextEvId[e], currentHour(tick[e]))
         cps2 == [chargepoints[e] EXCEPT ![i] = r.cp]
     IN  /\ chargepoints' = [chargepoints EXCEPT ![e] = cps2]
         /\ evs' = [evs EXCEPT ![e] = r.heap]
         /\ seed' = [seed EXCEPT ![g] = r.seed]
         /\ draws' = [draws EXCEPT ![g] = @ + r.draws]
         /\ nextEvId' = [nextEvId EXCEPT ![e] = r.nextEvId]
         /\ totalEnergyDeliveredThisTick' =
              [totalEnergyDeliveredThisTick EXCEPT ![e] = @ + r.energyDelivered]
         /\ currentPowerDemandThisTick' =
              [currentPowerDemandThisTick EXCEPT ![e] =
                 IF ~r.threw /\ r.energyDelivered > 0 THEN @ + r.cp.powerKw ELSE @]
         /\ occupancy' = [occupancy EXCEPT ![e] = Append(@, occupancyOf(cps2, r.heap))]
         /\ created' = [created EXCEPT ![e] = Append(@, createdIn(evs[e], r.heap))]
         /\ consoleLines' = [consoleLines EXCEPT ![e] =
                               @ + consoleLog(verbose[e],
                                              iterationMessages(chargepoints[e][i], evs[e], r))]
         /\ cpIndex' = [cpIndex EXCEPT ![e] = IF r.threw THEN @ ELSE @ + 1]
         /\ pc' = [pc EXCEPT ![e] = IF r.threw THEN "threw" ELSE @]
  /\ UNCHANGED << configVars, tick, currentTick, stats, lastCall >>

ProcessChargepoint(e) ==
  /\ CanProcessChargepoint(e)
  /\ LET i  == cpIndex[e]
         g  == randomGenerator(e)
         r  == chargepointIteration(chargepoints[e][i], evs[e], seed[g],
                                    nextEvId[e], currentHour(tick[e]))
         cps2 == [chargepoints[e] EXCEPT ![i] = r.cp]
     IN  /\ chargepoints' = [chargepoints EXCEPT ![e] = cps2]
         /\ evs' = [evs EXCEPT ![e] = r.heap]
         /\ seed' = [seed EXCEPT ![g] = r.seed]
         /\ draws' = [draws EXCEPT ![g] = @ + r.draws]
         /\ nextEvId' = [nextEvId EXCEPT ![e] = r.nextEvId]
         /\ totalEnergyDeliveredThisTick' =
              [totalEnergyDeliveredThisTick EXCEPT ![e] = @ + r.energyDelivered]
         /\ currentPowerDemandThisTick' =
              [currentPowerDemandThisTick EXCEPT ![e] =
                 IF ~r.threw /\ ~isAvailable(r.cp) THEN @ + r.cp.powerKw ELSE @]
         /\ occupancy' = [occupancy EXCEPT ![e] = Append(@, occupancyOf(cps2, r.heap))]
         /\ created' = [created EXCEPT ![e] = Append(@, createdIn(evs[e], r.heap))]
         /\ consoleLines' = [consoleLines EXCEPT ![e] =
                               @ + consoleLog(verbose[e],
                                              iterationMessages(chargepoints[e][i], evs[e], r))]
         /\ cpIndex' = [cpIndex EXCEPT ![e] = IF r.threw THEN @ ELSE @ + 1]
         /\ pc' = [pc EXCEPT ![e] = IF r.threw THEN "threw" ELSE @]
  /\ UNCHANGED << configVars, tick, currentTick, stats, lastCall >>

\* the chargepoint loop is over: recordTickData, then tick++
CanTickEnd(e) ==
  pc[e] = "chargepoints" /\ cpIndex[e] \notin DOMAIN chargepoints[e]

\* recordTickData called from inside _logSim's  if (this.verbose)
TickEnd_RecordsWhenVerbose(e) ==
  /\ CanTickEnd(e)
  /\ stats' = [stats EXCEPT ![e] =
                 IF verbose[e]
                 THEN recordTickData(@, totalEnergyDeliveredThisTick[e],
                                     currentPowerDemandThisTick[e])
                 ELSE @]
  /\ tick' = [tick EXCEPT ![e] = @ + 1]
  /\ pc' = [pc EXCEPT ![e] = "loop"]
  /\ consoleLines' = [consoleLines EXCEPT ![e] = @ + consoleLog(verbose[e], 1)]
  /\ UNCHANGED << configVars, rngVars, objVars, cpIndex,
                  totalEnergyDeliveredThisTick, currentPowerDemandThisTick,
                  currentTick, nextEvId, occupancy, created, lastCall >>

TickEnd(e) ==
  /\ CanTickEnd(e)
  /\ stats' = [stats EXCEPT ![e] =
                 recordTickData(@, totalEnergyDeliveredThisTick[e],
                                currentPowerDemandThisTick[e])]
  /\ tick' = [tick EXCEPT ![e] = @ + 1]
  /\ pc' = [pc EXCEPT ![e] = "loop"]
  /\ consoleLines' = [consoleLines EXCEPT ![e] = @ + consoleLog(verbose[e], 1)]
  /\ UNCHANGED << configVars, rngVars, objVars, cpIndex,
                  totalEnergyDeliveredThisTick, currentPowerDemandThisTick,
                  currentTick, nextEvId, occupancy, created, lastCall >>

\* the loop test fails: return this.stats
CanRunReturn(e) == pc[e] = "loop" /\ tick[e] >= maxTicksToSimulate[e]

RunReturn(e) ==
  /\ CanRunReturn(e)
  /\ pc' = [pc EXCEPT ![e] = "done"]
  /\ consoleLines' = [consoleLines EXCEPT ![e] = @ + consoleLog(verbose[e], 1)]
  /\ UNCHANGED << configVars, rngVars, objVars, tick, cpIndex,
                  totalEnergyDeliveredThisTick, currentPowerDemandThisTick,
                  currentTick, nextEvId, stats, occupancy, created,
                  lastCall >>

Run(e) ==
  \/ RunBegin(e)
  \/ TickBegin(e)
  \/ ProcessChargepoint(e)
  \/ TickEnd(e)
  \/ RunReturn(e)

\* one engine, run once
Next == Run(1)

Spec == Init /\ [][Next]_vars

\* as Init, or an empty station built without options: default seed, and
\* maxTicks not given
InitYear == Init \/ Construct(0, << >>, << >>, << >>)

SpecYear == InitYear /\ [][Next]_vars

\* two engines constructed alike, each run once, in either order
NextPair == \E e \in Engines : Run(e)

SpecPair == Init /\ [][NextPair]_vars

\* engine 1 constructed with verbose: true, engine 2 with verbose: false,
\* otherwise alike
InitVerbose ==
  \E n \in 0 .. MaxChargepoints, seedOpt \in SeedOptions, t \in 0 .. MaxTicks :
    ConstructWith(n, seedOpt, << t >>,
                  [e \in Engines |-> IF e = 1 THEN << TRUE >> ELSE << FALSE >>],
                  << >>)

SpecVerbose == InitVerbose /\ [][NextPair]_vars

\* ---------------------------------------------------- run() called twice
\* the ticks of a day
TICKS_PER_DAY == TICKS_PER_HOUR * HOURS_PER_DAY

\* the days of the run that is repeated
DaysPerRun == 1

\* the seeds given to the engines that are run twice
TwiceSeeds == { << >>, << 4 >>, << 16 >> }

\* new EVChargingSimulation(n, {seed, maxTicks}) twice with the same n and
\* seed, maxTicks given per engine, verbose not given
ConstructEach(n, seedOpt, maxTicksOpts) ==
  /\ numChargepoints = [e \in Engines |-> n]
  /\ verbose = [e \in Engines |-> VERBOSE_DEFAULT_ENABLED]
  /\ maxTicksToSimulate = [e \in Engines |-> OptionOr(maxTicksOpts[e], TOTAL_TICKS_PER_YEAR)]
  /\ seed = [g \in Engines |-> SeededRandom(OptionOr(seedOpt, DEFAULT_SIMULATION_SEED))]
  /\ draws = [g \in Engines |-> 0]
  /\ chargepoints = [e \in Engines |-> ChargingStation(n)]
  /\ evs = [e \in Engines |-> << >>]
  /\ stats = [e \in Engines |-> SimulationStatistics]
  /\ currentTick = [e \in Engines |-> 0]
  /\ nextEvId = [e \in Engines |-> 1]
  /\ pc = [e \in Engines |-> "ready"]
  /\ tick = [e \in Engines |-> 0]
  /\ cpIndex = [e \in Engines |-> 0]
  /\ totalEnergyDeliveredThisTick = [e \in Engines |-> 0]
  /\ currentPowerDemandThisTick = [e \in Engines |-> 0]
  /\ occupancy = [e \in Engines |-> << >>]
  /\ created = [e \in Engines |-> << >>]
  /\ consoleLines = [e \in Engines |-> consoleLog(VERBOSE_DEFAULT_ENABLED, 1)]
  /\ lastCall = NoCall

\* engine 1 with maxTicks N, a whole number of days, and engine 2 with
\* maxTicks 2N
InitTwice ==
  \E n \in 0 .. MaxStationSize, seedOpt \in TwiceSeeds :
    ConstructEach(n, seedOpt,
                  [e \in Engines |-> IF e = 1 THEN << DaysPerRun * TICKS_PER_DAY >>
                                               ELSE << 2 * DaysPerRun * TICKS_PER_DAY >>])

\* run() has returned once and has not been called again
CanRunAgain(e) ==
  pc[e] = "done" /\ lastCall.op # "run" /\ \A o \in Engines : ~Running(o)

\* run() starting with  this.stats = new SimulationStatistics()
RunAgain_FreshStatistics(e) ==
  /\ CanRunAgain(e)
  /\ pc' = [pc EXCEPT ![e] = "loop"]
  /\ tick' = [tick EXCEPT ![e] = 0]
  /\ stats' = [stats EXCEPT ![e] = SimulationStatistics]
  /\ lastCall' = [op |-> "run", engine |-> e]
  /\ UNCHANGED << configVars, rngVars, objVars, cpIndex,
                  totalEnergyDeliveredThisTick, currentPowerDemandThisTick,
                  currentTick, nextEvId, occupancy, created, consoleLines >>

\* the second call of run() on an engine: the loop starts again with
\* let tick = 0  on the fields as the first call left them
RunAgain(e) ==
  /\ CanRunAgain(e)
  /\ pc' = [pc EXCEPT ![e] = "loop"]
  /\ tick' = [tick EXCEPT ![e] = 0]
  /\ lastCall' = [op |-> "run", engine |-> e]
  /\ UNCHANGED << configVars, rngVars, objVars, cpIndex,
                  totalEnergyDeliveredThisTick, currentPowerDemandThisTick,
                  currentTick, nextEvId, stats, occupancy, created,
                  consoleLines >>

\* engine 1 is run twice and engine 2 once, one call at a time
NextTwice ==
  \/ \E e \in Engines : Run(e)
  \/ RunAgain(1)

SpecTwice == InitTwice /\ [][NextTwice]_vars

\* ------------------------------------------------- runSimulationAction
\* the days of the run the action makes
ActionDays == 4

\* new EVChargingSimulation(params.numChargepoints, {seed:
\* DEFAULT_SIMULATION_SEED, verbose: false}) with the run cut to ActionDays
\* days
InitAction ==
  \E n \in 0 .. MaxChargepoints :
    ConstructWith(n, << DEFAULT_SIMULATION_SEED >>, << ActionDays * TICKS_PER_DAY >>,
                  [e \in Engines |-> << FALSE >>], << >>)

\* monthlyDistributionFactors, in hundredths
monthlyDistributionFactors == << 7, 6, 8, 8, 9, 9, 10, 10, 9, 8, 8, 8 >>

\* reduce((sum, x) => sum + x, 0)
RECURSIVE SumSeq(_)
SumSeq(q) ==
  IF q = << >> THEN 0 ELSE q[Len(q)] + SumSeq(SubSeq(q, 1, Len(q) - 1))

totalFactor == SumSeq(monthlyDistributionFactors)

\* 0.9 + chartDataRandom.next() * 0.2  lies in [0.9, 1.1): in hundredths
JITTER_LOW == 90
JITTER_HIGH == 110

\* the values Math.round(numChargingSessions * normalizedMonthlyFactors[i]
\* * (0.9 + chartDataRandom.next() * 0.2)) can take for month i (from 1),
\* whatever the draw and the rounding of the product
sessionsThisMonth(n, i) ==
  LET d  == totalFactor * 100
      lo == (2 * n * monthlyDistributionFactors[i] * JITTER_LOW + d - 1) \div (2 * d)
      hi == (2 * n * monthlyDistributionFactors[i] * JITTER_HIGH + d) \div (2 * d)
  IN  lo .. hi

\* the locals of a call of runSimulationAction
ActionFrame(at, n, perMonth, remainingSessions) ==
  [op |-> "runSimulationAction", at |-> at, numChargingSessions |-> n,
   perMonth |-> perMonth, remainingSessions |-> remainingSessions]

\* mainSimulation.run() has returned: numChargingSessions is read from
\* nextEvId; with no session perMonth is Array(12).fill(0)
ReadSessions ==
  /\ pc[1] = "done" /\ lastCall.op = "none"
  /\ LET n == IF nextEvId[1] > 1 THEN nextEvId[1] - 1 ELSE 0
     IN  lastCall' = IF n > 0
                     THEN ActionFrame("months", n, << >>, n)
                     ELSE ActionFrame("returned", n, [i \in 1 .. 12 |-> 0], n)
  /\ UNCHANGED << configVars, rngVars, objVars, runVars >>

\* one iteration of  for (let i = 0; i < 11; i++)
DistributeMonth ==
  /\ lastCall.op = "runSimulationAction" /\ lastCall.at = "months"
  /\ Len(lastCall.perMonth) < 11
  /\ \E sessions \in sessionsThisMonth(lastCall.numChargingSessions,
                                        Len(lastCall.perMonth) + 1) :
       lastCall' = ActionFrame("months", lastCall.numChargingSessions,
                               Append(lastCall.perMonth, sessions),
                               lastCall.remainingSessions - sessions)
  /\ UNCHANGED << configVars, rngVars, objVars, runVars >>

\* the last month without the correction by diff
FinishBreakdown_NoCorrection ==
  /\ lastCall.op = "runSimulationAction" /\ lastCall.at = "months"
  /\ Len(lastCall.perMonth) = 11
  /\ LET remainder == IF lastCall.remainingSessions > 0
                      THEN lastCall.remainingSessions ELSE 0
     IN  lastCall' = ActionFrame("returned", lastCall.numChargingSessions,
                                 Append(lastCall.perMonth, remainder),
                                 lastCall.remainingSessions)
  /\ UNCHANGED << configVars, rngVars, objVars, runVars >>

\* after the loop: the remainder goes to the last month, perMonth is summed,
\* and the difference to numChargingSessions is added to the last month
FinishBreakdown ==
  /\ lastCall.op = "runSimulationAction" /\ lastCall.at = "months"
  /\ Len(lastCall.perMonth) = 11
  /\ LET remainder == IF lastCall.remainingSessions > 0
                      THEN lastCall.remainingSessions ELSE 0
         pushed    == Append(lastCall.perMonth, remainder)
         sumMonthlySessions == SumSeq(pushed)
         diff      == lastCall.numChargingSessions - sumMonthlySessions
         perMonth  == IF sumMonthlySessions # lastCall.numChargingSessions
                         /\ Len(pushed) > 0
                      THEN [pushed EXCEPT ![Len(pushed)] = @ + diff]
                      ELSE pushed
     IN  lastCall' = ActionFrame("returned", lastCall.numChargingSessions,
                                 perMonth, lastCall.remainingSessions)
  /\ UNCHANGED << configVars, rngVars, objVars, runVars >>

NextAction ==
  \/ Run(1)
  \/ ReadSessions
  \/ DistributeMonth
  \/ FinishBreakdown

SpecAction == InitAction /\ [][NextAction]_vars

\* ------------------------------------------- direct callers of the classes
\* A caller that owns a station and some vehicles and calls the public
\* methods of Chargepoint and ChargingStation in any order.
\* the caller's vehicles: need negative, zero, under one tick's delivery,
\* one tick's delivery plus the 0.0001 kWh tolerance, and two ticks' worth
HarnessNeeds == << -9000, 0, 9000, 27501, 36000 >>

HarnessVehicles == [k \in 1 .. Len(HarnessNeeds) |-> ElectricVehicle(k, HarnessNeeds[k])]

InitStation ==
  \E n \in 0 .. MaxStationSize : Construct(n, << >>, << 0 >>, HarnessVehicles)

\* chargepoints[i].assignEV(ev)
CallAssignEV(i, ev) ==
  LET r == assignEV(chargepoints[1][i], ev, evs[1])
  IN  /\ chargepoints' = [chargepoints EXCEPT ![1][i] = r.cp]
      /\ lastCall' = Call("assignEV", i, ev, r.ret, 0, r.threw)
      /\ UNCHANGED << configVars, rngVars, evs, runVars >>

\* chargepoints[i].processChargingTick()
CallProcessChargingTick(i) ==
  LET r == processChargingTick(chargepoints[1][i], evs[1])
  IN  /\ chargepoints' = [chargepoints EXCEPT ![1][i] = r.cp]
      /\ evs' = [evs EXCEPT ![1] = r.heap]
      /\ lastCall' = Call("processChargingTick", i, chargepoints[1][i].currentEV,
                          FALSE, r.ret, FALSE)
      /\ UNCHANGED << configVars, rngVars, runVars >>

\* releaseEV() clearing every chargepoint of the station
CallReleaseEV_ClearsStation(i) ==
  /\ chargepoints' = [chargepoints EXCEPT ![1] =
                        [j \in DOMAIN chargepoints[1] |-> releaseEV(chargepoints[1][j])]]
  /\ lastCall' = Call("releaseEV", i, chargepoints[1][i].currentEV, FALSE, 0, FALSE)
  /\ UNCHANGED << configVars, rngVars, evs, runVars >>

\* chargepoints[i].releaseEV()
CallReleaseEV(i) ==
  /\ chargepoints' = [chargepoints EXCEPT ![1][i] = releaseEV(@)]
  /\ lastCall' = Call("releaseEV", i, chargepoints[1][i].currentEV, FALSE, 0, FALSE)
  /\ UNCHANGED << configVars, rngVars, evs, runVars >>

\* station.findAvailableChargepoint()
CallFindAvailableChargepoint ==
  /\ lastCall' = Call("findAvailableChargepoint",
                      findAvailableChargepoint(chargepoints[1]), NULL, FALSE, 0, FALSE)
  /\ UNCHANGED << configVars, rngVars, objVars, runVars >>

NextStation ==
  \/ \E i \in DOMAIN chargepoints[1], ev \in 0 .. Len(evs[1]) : CallAssignEV(i, ev)
  \/ \E i \in DOMAIN chargepoints[1] : CallProcessChargingTick(i)
  \/ \E i \in DOMAIN chargepoints[1] : CallReleaseEV(i)
  \/ CallFindAvailableChargepoint

SpecStation == InitStation /\ [][NextStation]_vars

\* ------------------------------------------- direct callers of SeededRandom
\* seeds around 0, around +-2147483647 and the default
RandomSeeds ==
  ((0 - MinSeed) .. MaxSeed)
    \cup {LCG_MODULUS - k : k \in 0 .. MinSeed}
    \cup {k - LCG_MODULUS : k \in 0 .. MinSeed}
    \cup {DEFAULT_SIMULATION_SEED}

InitRandom == \E s \in RandomSeeds : Construct(0, << s >>, << 0 >>, << >>)

\* one register for all SeededRandom objects
registerOf_Static(g) == 1

\* the  private seed  field of stream g: each SeededRandom object has its own
registerOf(g) == g

\* stream g's next()
CallNext(g) ==
  /\ draws[g] < MaxDraws
  /\ LET d == next(seed[registerOf(g)])
     IN  /\ seed' = [seed EXCEPT ![registerOf(g)] = d.seed]
         /\ draws' = [draws EXCEPT ![g] = @ + 1]
         /\ lastCall' = Call("next", NO_CHARGEPOINT, NULL, FALSE, d.value, FALSE)
  /\ UNCHANGED << configVars, objVars, runVars >>

\* the (min, max) pairs given to nextInt; neither width shares a factor with
\* 2147483646, so value * (max - min) / 2147483646 is never an integer and the
\* floating-point floor is the exact one
IntRanges == { << 5, 10 >>, << 0 - 3, 10 >> }

\* stream 1's nextInt(min, max)
CallNextInt(min, max) ==
  /\ draws[1] < MaxDraws
  /\ LET d == nextInt(seed[1], min, max)
     IN  /\ seed' = [seed EXCEPT ![1] = d.seed]
         /\ draws' = [draws EXCEPT ![1] = @ + 1]
         /\ lastCall' = [op |-> "nextInt", min |-> min, max |-> max,
                         value |-> d.value, threw |-> FALSE]
  /\ UNCHANGED << configVars, objVars, runVars >>

\* one stream
NextRandom ==
  \/ CallNext(1)
  \/ \E range \in IntRanges : CallNextInt(range[1], range[2])

SpecRandom == InitRandom /\ [][NextRandom]_vars

\* two streams constructed from the same seed, drawn from in any order
NextStreams == \E g \in Engines : CallNext(g)

SpecStreams == InitRandom /\ [][NextStreams]_vars

\* ------------------------------- direct callers of getWeightedRandomChoice
\* [(0, 0.5), (10, 0.5)]
EvenSplit ==
  << [value |-> 0, probability |-> 5000], [value |-> 10, probability |-> 5000] >>

\* probabilities that sum to 0.35
ShortOfOne ==
  << [value |-> 7, probability |-> 2500], [value |-> 3, probability |-> 1000] >>

SamplerDistributions ==
  { << >>, EvenSplit, ShortOfOne, CHARGING_DEMAND_KM_DISTRIBUTION_T2 }

\* getWeightedRandomChoice(distribution, stream 1)
CallGetWeightedRandomChoice(distribution) ==
  /\ draws[1] < MaxDraws
  /\ LET r == getWeightedRandomChoice(distribution, seed[1])
     IN  /\ seed' = [seed EXCEPT ![1] = r.seed]
         /\ draws' = [draws EXCEPT ![1] = @ + r.draws]
         /\ lastCall' = [op |-> "getWeightedRandomChoice",
                         distribution |-> distribution, rand |-> r.rand,
                         value |-> r.value, threw |-> r.threw]
  /\ UNCHANGED << configVars, objVars, runVars >>

NextSampler == \E distribution \in SamplerDistributions :
                 CallGetWeightedRandomChoice(distribution)

SpecSampler == InitRandom /\ [][NextSampler]_vars

\* ------------------------------------ direct callers of ElectricVehicle
\* the caller's vehicles: needing 10 kWh, 3.6 kWh and nothing
ChargeNeeds == << 100000, 36000, 0 >>

ChargeVehicles == [k \in 1 .. Len(ChargeNeeds) |-> ElectricVehicle(k, ChargeNeeds[k])]

\* the amounts offered: nothing, 2.75 kWh, 4 kWh and 15 kWh
ChargeAmounts == { 0, 27500, 40000, 150000 }

InitVehicle == Construct(0, << >>, << 0 >>, ChargeVehicles)

\* evs[ev].charge(energyKwh)
CallCharge(ev, energyKwh) ==
  LET c == charge(evs[1][ev], energyKwh)
  IN  /\ evs' = [evs EXCEPT ![1][ev] = c.ev]
      /\ lastCall' = [op |-> "charge", ev |-> ev, energyKwh |-> energyKwh,
                      value |-> c.ret, threw |-> FALSE]
      /\ UNCHANGED << configVars, rngVars, chargepoints, runVars >>

\* evs[ev].isFullyCharged()
CallIsFullyCharged(ev) ==
  /\ lastCall' = [op |-> "isFullyCharged", ev |-> ev,
                  flag |-> isFullyCharged(evs[1][ev]), threw |-> FALSE]
  /\ UNCHANGED << configVars, rngVars, objVars, runVars >>

NextVehicle ==
  \/ \E ev \in DOMAIN evs[1], energyKwh \in ChargeAmounts : CallCharge(ev, energyKwh)
  \/ \E ev \in DOMAIN evs[1] : CallIsFullyCharged(ev)

SpecVehicle == InitVehicle /\ [][NextVehicle]_vars

\* ------------------------------------------------------------ properties
RECURSIVE SumReceived(_)
\* the sum of energyReceivedKwh over the vehicles of a heap
SumReceived(heap) ==
  IF heap = << >> THEN 0
  ELSE heap[Len(heap)].energyReceivedKwh + SumReceived(SubSeq(heap, 1, Len(heap) - 1))

\* the references held by the chargepoints of engine 1
Held == {chargepoints[1][i].currentEV : i \in DOMAIN chargepoints[1]} \ {NULL}

\* C1: assignEV on an occupied chargepoint, given any vehicle, returns false
\* (without throwing) and leaves the chargepoint holding the same vehicle with
\* the same received energy; no vehicle changes.
C1_OccupiedAssignRejected ==
  [][\A i \in DOMAIN chargepoints[1], v \in 1 .. Len(evs[1]) :
       (CallAssignEV(i, v) /\ chargepoints[1][i].currentEV # NULL)
         => /\ lastCall'.flag = FALSE
            /\ lastCall'.threw = FALSE
            /\ chargepoints'[1][i].currentEV = chargepoints[1][i].currentEV
            /\ evs' = evs]_vars

\* a chargepoint holding one vehicle has just refused another, chargeable one
C1_Witness ==
  /\ lastCall.op = "assignEV"
  /\ lastCall.ev # NULL
  /\ lastCall.flag = FALSE
  /\ evs[1][lastCall.ev].energyNeededKwh > 0
  /\ chargepoints[1][lastCall.cp].currentEV \notin {NULL, lastCall.ev}
  /\ evs[1][chargepoints[1][lastCall.cp].currentEV].energyReceivedKwh > 0

\* C2: during a run no vehicle (by reference or by id) is held by two
\* chargepoints, and a chargepoint only ever starts holding a vehicle created
\* in that very step, so a released vehicle is never held again.
C2_HeldByAtMostOne ==
  \A i, j \in DOMAIN chargepoints[1] :
    (i # j /\ chargepoints[1][i].currentEV # NULL /\ chargepoints[1][j].currentEV # NULL)
      => /\ chargepoints[1][i].currentEV # chargepoints[1][j].currentEV
         /\ evs[1][chargepoints[1][i].currentEV].id # evs[1][chargepoints[1][j].currentEV].id

C2_NewlyHeldIsNew ==
  \A i \in DOMAIN chargepoints[1] :
    LET v == chargepoints'[1][i].currentEV
    IN  (v # NULL /\ v # chargepoints[1][i].currentEV)
          => /\ v > Len(evs[1])
             /\ \A k \in 1 .. Len(evs[1]) : evs[1][k].id # evs'[1][v].id

C2_ExclusiveHolding == [](C2_HeldByAtMostOne) /\ [][C2_NewlyHeldIsNew]_vars

\* two chargepoints are occupied while an earlier vehicle has been released
C2_Witness ==
  /\ Cardinality(Held) >= 2
  /\ \E k \in 1 .. Len(evs[1]) : k \notin Held /\ isFullyCharged(evs[1][k])

\* C3: every vehicle created in a run has 0 <= received <= needed in every
\* state, its need never changes and its received energy never decreases.
C3_ReceivedInRange ==
  \A k \in 1 .. Len(evs[1]) :
    /\ 0 <= evs[1][k].energyReceivedKwh
    /\ evs[1][k].energyReceivedKwh <= evs[1][k].energyNeededKwh

C3_NeedFixedReceivedGrows ==
  /\ Len(evs'[1]) >= Len(evs[1])
  /\ \A k \in 1 .. Len(evs[1]) :
       /\ evs'[1][k].id = evs[1][k].id
       /\ evs'[1][k].energyNeededKwh = evs[1][k].energyNeededKwh
       /\ evs'[1][k].energyReceivedKwh >= evs[1][k].energyReceivedKwh

C3_VehicleEnergyBounds == [](C3_ReceivedInRange) /\ [][C3_NeedFixedReceivedGrows]_vars

\* a vehicle needing more than one tick's delivery has received exactly its
\* need, the last delivery having been clamped
C3_Witness ==
  \E k \in 1 .. Len(evs[1]) :
    /\ evs[1][k].energyReceivedKwh = evs[1][k].energyNeededKwh
    /\ evs[1][k].energyNeededKwh > energyDeliverableThisTick(Chargepoint(0))
    /\ evs[1][k].energyNeededKwh % energyDeliverableThisTick(Chargepoint(0)) # 0

\* C4: whenever a tick has been completed (at the loop test, and after the
\* run has returned) totalEnergyConsumedKwh equals the sum of the received
\* energy of all vehicles created so far, charging ones included.
C4_Conservation ==
  pc[1] \in {"loop", "done"}
    => stats[1].totalEnergyConsumedKwh = SumReceived(evs[1])

\* the run is over, energy was delivered, and a vehicle is still charging
C4_Witness ==
  /\ pc[1] = "done"
  /\ stats[1].totalEnergyConsumedKwh > 0
  /\ Held # {}
  /\ Len(evs[1]) >= 2

\* C5: two engines constructed with the same numChargepoints, seed and
\* maxTicks, each run once, have gone through the same sequence of occupancy
\* states and hold the same statistics when both runs are over.
C5_Reproducible ==
  (pc[1] = "done" /\ pc[2] = "done")
    => /\ occupancy[1] = occupancy[2]
       /\ stats[1].totalEnergyConsumedKwh = stats[2].totalEnergyConsumedKwh
       /\ stats[1].actualMaxPowerDemandKw = stats[2].actualMaxPowerDemandKw

\* both runs are over and vehicles were charged in them
C5_Witness ==
  /\ pc[1] = "done" /\ pc[2] = "done"
  /\ stats[1].totalEnergyConsumedKwh > 0
  /\ stats[2].actualMaxPowerDemandKw > 0
  /\ Len(evs[1]) >= 2 /\ Len(evs[2]) >= 2

\* C6: totalEnergyConsumedKwh and actualMaxPowerDemandKw never decrease, and
\* both are 0 until the first tick has been recorded.
C6_StatsGrow ==
  /\ stats'[1].totalEnergyConsumedKwh >= stats[1].totalEnergyConsumedKwh
  /\ stats'[1].actualMaxPowerDemandKw >= stats[1].actualMaxPowerDemandKw

C6_ZeroBeforeFirstTick ==
  tick[1] = 0 => /\ stats[1].totalEnergyConsumedKwh = 0
                 /\ stats[1].actualMaxPowerDemandKw = 0

C6_StatsMonotone == [](C6_ZeroBeforeFirstTick) /\ [][C6_StatsGrow]_vars

\* a tick was recorded whose power demand is below the maximum so far, and
\* energy was consumed
C6_Witness ==
  /\ pc[1] = "loop"
  /\ tick[1] > 0
  /\ stats[1].totalEnergyConsumedKwh > 0
  /\ currentPowerDemandThisTick[1] < stats[1].actualMaxPowerDemandKw

\* C7: processChargingTick on an occupied chargepoint: if the delivery leaves
\* the vehicle with received >= needed - 0.0001 the chargepoint is idle when
\* the call returns and findAvailableChargepoint then returns it (or an idle
\* chargepoint of lower index); otherwise it still holds the same vehicle.
C7_ReleaseOnCompletion ==
  [][\A i \in DOMAIN chargepoints[1] :
       (CallProcessChargingTick(i) /\ chargepoints[1][i].currentEV # NULL)
         => LET v == evs'[1][chargepoints[1][i].currentEV]
                f == findAvailableChargepoint(chargepoints'[1])
            IN  IF v.energyReceivedKwh >= v.energyNeededKwh - 1
                THEN /\ chargepoints'[1][i].currentEV = NULL
                     /\ f # NO_CHARGEPOINT
                     /\ f <= i
                     /\ (\A j \in 0 .. i - 1 : chargepoints'[1][j].currentEV # NULL)
                          => f = i
                ELSE chargepoints'[1][i].currentEV = chargepoints[1][i].currentEV]_vars

\* a delivery has just released a vehicle that is 0.0001 kWh short of its need
C7_Witness ==
  /\ lastCall.op = "processChargingTick"
  /\ lastCall.ev # NULL
  /\ lastCall.value > 0
  /\ chargepoints[1][lastCall.cp].currentEV = NULL
  /\ evs[1][lastCall.ev].energyReceivedKwh = evs[1][lastCall.ev].energyNeededKwh - 1

\* C8: findAvailableChargepoint returns the idle chargepoint of lowest index
\* (chargepoint 0 when it is idle), none when no chargepoint is idle or the
\* station is empty, and changes nothing.
C8_FirstFit ==
  [][CallFindAvailableChargepoint
       => LET idle == {i \in DOMAIN chargepoints[1] : chargepoints[1][i].currentEV = NULL}
              f    == lastCall'.cp
          IN  /\ idle = {} => f = NO_CHARGEPOINT
              /\ idle # {} => (f \in idle /\ \A j \in idle : f <= j)
              /\ 0 \in idle => f = 0
              /\ UNCHANGED << configVars, rngVars, objVars, runVars >>]_vars

\* chargepoint 0 is occupied and the call returned chargepoint 1
C8_Witness ==
  /\ lastCall.op = "findAvailableChargepoint"
  /\ lastCall.cp = 1
  /\ chargepoints[1][0].currentEV # NULL
  /\ chargepoints[1][1].currentEV = NULL

\* some step of run() on engine e can be taken
RunCanStep(e) ==
  \/ CanRunBegin(e) \/ CanTickBegin(e) \/ CanProcessChargepoint(e)
  \/ CanTickEnd(e) \/ CanRunReturn(e)

\* a bound on the number of steps run() on engine e has left
RunMeasure(e) ==
  LET perTick == Cardinality(DOMAIN chargepoints[e]) + 2
      left    == maxTicksToSimulate[e] - tick[e]
  IN  CASE pc[e] = "ready"        -> maxTicksToSimulate[e] * perTick + 2
        [] pc[e] = "loop"         -> IF left > 0 THEN left * perTick + 1 ELSE 1
        [] pc[e] = "chargepoints" -> left * perTick - cpIndex[e]
        [] OTHER                  -> 0

\* C9: an engine with 0 chargepoints has statistics 0 in every state of its
\* run, in particular when run() has returned; and run() does return: until
\* then a step can always be taken, and every step lowers a nonnegative bound
\* on the steps left.
C9_StatsStayZero ==
  numChargepoints[1] = 0
    => /\ stats[1].totalEnergyConsumedKwh = 0
       /\ stats[1].actualMaxPowerDemandKw = 0
       /\ pc[1] # "threw"
       /\ pc[1] # "done" => RunCanStep(1)
       /\ RunMeasure(1) >= 0

C9_StepsLeftShrink ==
  numChargepoints[1] = 0 => RunMeasure(1)' < RunMeasure(1)

C9_ZeroChargepoints == [](C9_StatsStayZero) /\ [][C9_StepsLeftShrink]_vars

\* a run of several ticks over an empty station is over
C9_Witness ==
  /\ numChargepoints[1] = 0
  /\ pc[1] = "done"
  /\ tick[1] = maxTicksToSimulate[1]
  /\ tick[1] >= 2

\* C10: every value returned by next() is in [0, 1): its numerator over
\* 2147483646 is at least 0 and less than 2147483646.
C10_NextInUnitInterval ==
  lastCall.op = "next"
    => /\ 0 <= lastCall.value
       /\ lastCall.value < RAND_DENOMINATOR

\* after several draws, a value above 0.99 was returned
C10_Witness ==
  /\ lastCall.op = "next"
  /\ draws[1] >= 3
  /\ lastCall.value > RAND_DENOMINATOR - RAND_DENOMINATOR \div 100

\* C11: the register of a stream is in [1, 2147483646] after construction and
\* after every draw; in particular it is never 0.
C11_RegisterInRange ==
  /\ 1 <= seed[1]
  /\ seed[1] <= RAND_DENOMINATOR

\* C12: nextInt(min, max) with min < max returns an integer r with
\* min <= r < max.
C12_NextIntInRange ==
  lastCall.op = "nextInt"
    => /\ lastCall.min <= lastCall.value
       /\ lastCall.value < lastCall.max

\* (x + y) mod 2147483647 for 0 <= x, y < 2147483647, within 32 bits
AddMod(x, y) ==
  IF x >= LCG_MODULUS - y THEN x - (LCG_MODULUS - y) ELSE x + y

RECURSIVE TimesMod(_, _)
\* (a * s) mod 2147483647 for 0 <= s < 2147483647, by doubling
TimesMod(a, s) ==
  IF a = 0 THEN 0
  ELSE LET h == TimesMod(a \div 2, s)
       IN  IF a % 2 = 1 THEN AddMod(AddMod(h, h), s) ELSE AddMod(h, h)

\* C13: a stream's state is its one register: a next() on stream g sets the
\* register to (register * 16807) mod 2147483647, returns
\* (register - 1) / 2147483646 of the new register, and leaves the other
\* stream alone; so two streams constructed from the same seed that have made
\* the same number of draws have the same register, and return the same value
\* on their next draw.
C13_SameDrawsSameRegister ==
  draws[1] = draws[2]
    => /\ seed[1] = seed[2]
       /\ next(seed[1]).value = next(seed[2]).value

C13_LcgStep ==
  \A g \in Engines :
    draws'[g] = draws[g] + 1
      => /\ seed'[g] = TimesMod(LCG_MULTIPLIER, seed[g])
         /\ lastCall'.op = "next"
         /\ lastCall'.value = seed'[g] - 1
         /\ \A o \in Engines \ {g} : seed'[o] = seed[o] /\ draws'[o] = draws[o]

C13_Deterministic == [](C13_SameDrawsSameRegister) /\ [][C13_LcgStep]_vars

\* both streams have made the same several draws, the second stream last
C13_Witness ==
  /\ draws[1] = draws[2]
  /\ draws[1] >= 3
  /\ lastCall.op = "next"
  /\ lastCall.value = seed[2] - 1
  /\ seed[2] >= 1

\* the first next() of stream 1, constructed with seed 1
FirstDrawOfSeedOne ==
  /\ seed[1] = SeededRandom(1)
  /\ draws[1] = 0
  /\ draws'[1] = 1
  /\ lastCall'.op = "next"

\* C14 as stated: for a stream constructed with seed 1, the first value
\* returned by next() is 16807 / 2147483646.
C14_FirstDrawAsStated ==
  [][FirstDrawOfSeedOne => lastCall'.value = LCG_MULTIPLIER]_vars

\* C14 amended: for a stream constructed with seed 1, the first next() leaves
\* the register at 16807 and returns (16807 - 1) / 2147483646, that is
\* 16806 / 2147483646.
C14_FirstDraw ==
  [][FirstDrawOfSeedOne
       => /\ seed'[1] = LCG_MULTIPLIER
          /\ lastCall'.value = LCG_MULTIPLIER - 1]_vars

\* the state after that first draw
C14_Witness ==
  /\ draws[1] = 1
  /\ lastCall.op = "next"
  /\ seed[1] = LCG_MULTIPLIER * SeededRandom(1)
  /\ lastCall.value = seed[1] - 1

RECURSIVE runningSum(_, _)
\* the sum of the probabilities of entries 1 .. i
runningSum(distribution, i) ==
  IF i = 0 THEN 0
  ELSE runningSum(distribution, i - 1) + distribution[i].probability

\* C15: a call on a non-empty distribution that drew r returns the value of
\* the first entry, in list order, whose running sum of probabilities
\* strictly exceeds r, and the value of the last entry when there is none;
\* for [(0, 0.5), (10, 0.5)] every r < 0.5 yields 0 and every other r 10.
C15_WeightedChoice ==
  lastCall.op = "getWeightedRandomChoice" /\ Len(lastCall.distribution) > 0
    => LET dist    == lastCall.distribution
           exceeds == {i \in 1 .. Len(dist) :
                         RandLess(lastCall.rand, runningSum(dist, i), PROB_SCALE)}
           first   == CHOOSE i \in exceeds : \A j \in exceeds : i <= j
       IN  /\ ~lastCall.threw
           /\ lastCall.value = IF exceeds = {} THEN dist[Len(dist)].value
                               ELSE dist[first].value
           /\ dist = EvenSplit
                => lastCall.value =
                     IF lastCall.rand < RAND_DENOMINATOR \div 2 THEN 0 ELSE 10

\* no entry triggered and the last entry's value came back
C15_Witness ==
  /\ lastCall.op = "getWeightedRandomChoice"
  /\ lastCall.distribution = ShortOfOne
  /\ ~RandLess(lastCall.rand, 3500, PROB_SCALE)
  /\ lastCall.value = 3

\* C16: a call on an empty distribution throws, and the stream is as before:
\* the register and the number of draws made are unchanged.
C16_EmptyThrows ==
  lastCall.op = "getWeightedRandomChoice" /\ Len(lastCall.distribution) = 0
    => lastCall.threw

C16_ThrowDrawsNothing ==
  lastCall'.op = "getWeightedRandomChoice" /\ Len(lastCall'.distribution) = 0
    => seed' = seed /\ draws' = draws

C17_OneDraw ==
  [][lastCall'.op = "getWeightedRandomChoice" /\ ~lastCall'.threw
       => /\ draws'[1] = draws[1] + 1
          /\ seed'[1] = TimesMod(LCG_MULTIPLIER, seed[1])
          /\ lastCall'.rand = seed'[1] - 1]_vars

\* the nine-entry table returned one of its later entries
C17_Witness ==
  /\ lastCall.op = "getWeightedRandomChoice"
  /\ lastCall.distribution = CHARGING_DEMAND_KM_DISTRIBUTION_T2
  /\ lastCall.value >= 100
  /\ draws[1] >= 2

\* C18: for a vehicle with 0 <= received <= needed and an amount a >= 0,
\* charge(a) returns min(a, needed - received), which is >= 0, adds exactly
\* that to received and changes nothing else; a vehicle needing 10 kWh given
\* charge(15) from empty has received 10 and is fully charged, and given
\* charge(4) after a first charge(4) has received 8 and is not.
C18_ChargeStep ==
  lastCall'.op = "charge"
    => LET before == evs[1][lastCall'.ev]
           after  == evs'[1][lastCall'.ev]
           a      == lastCall'.energyKwh
           ret    == lastCall'.value
       IN  /\ 0 <= before.energyReceivedKwh
           /\ before.energyReceivedKwh <= before.energyNeededKwh
           /\ a >= 0
           /\ ret >= 0
           /\ ret <= a
           /\ ret <= before.energyNeededKwh - before.energyReceivedKwh
           /\ ret = a \/ ret = before.energyNeededKwh - before.energyReceivedKwh
           /\ after = [before EXCEPT !.energyReceivedKwh = @ + ret]
           /\ \A k \in DOMAIN evs[1] \ {lastCall'.ev} : evs'[1][k] = evs[1][k]
           /\ before.energyNeededKwh = 10 * ENERGY_SCALE /\ before.energyReceivedKwh = 0
                /\ a = 15 * ENERGY_SCALE
                => after.energyReceivedKwh = 10 * ENERGY_SCALE /\ isFullyCharged(after)
           /\ before.energyNeededKwh = 10 * ENERGY_SCALE
                /\ before.energyReceivedKwh = 4 * ENERGY_SCALE /\ a = 4 * ENERGY_SCALE
                => after.energyReceivedKwh = 8 * ENERGY_SCALE /\ ~isFullyCharged(after)

C18_ChargeClamps == [][C18_ChargeStep]_vars

\* the vehicle needing 10 kWh after charge(4) twice, asked whether it is full
C18_Witness ==
  /\ lastCall.op = "isFullyCharged"
  /\ lastCall.ev = 1
  /\ ~lastCall.flag
  /\ evs[1][1].energyNeededKwh = 10 * ENERGY_SCALE
  /\ evs[1][1].energyReceivedKwh = 8 * ENERGY_SCALE

\* C19: run() processes ticks 0, 1, ..., maxTicks - 1 in increasing order and
\* returns after exactly maxTicks of them (35040 when maxTicks was not given):
\* it never throws, until it has returned a step can be taken, it returns
\* only with tick = maxTicks, and in the body of a tick the tick being
\* processed is below maxTicks.
C19_AllTicks ==
  /\ pc[1] # "threw"
  /\ pc[1] # "done" => RunCanStep(1)
  /\ 0 <= tick[1] /\ tick[1] <= maxTicksToSimulate[1]
  /\ pc[1] = "done" => tick[1] = maxTicksToSimulate[1]
  /\ pc[1] = "chargepoints"
       => currentTick[1] = tick[1] /\ tick[1] < maxTicksToSimulate[1]

\* every step lowers the bound on the steps left; the tick counter moves only
\* by +1, at the end of a tick's body, together with the one recordTickData
\* of that tick's totals; nothing else changes the statistics; the return
\* hands back the statistics as they are.
C19_TickByTick ==
  /\ RunMeasure(1)' < RunMeasure(1)
  /\ tick'[1] # tick[1]
       => /\ pc[1] = "chargepoints" /\ ~CanProcessChargepoint(1)
          /\ tick'[1] = tick[1] + 1
          /\ stats'[1] = recordTickData(stats[1], totalEnergyDeliveredThisTick[1],
                                        currentPowerDemandThisTick[1])
  /\ stats'[1] # stats[1] => tick'[1] = tick[1] + 1
  /\ pc'[1] = "done" => stats'[1] = stats[1] /\ tick'[1] = maxTicksToSimulate[1]

C19_Terminates == [](C19_AllTicks) /\ [][C19_TickByTick]_vars

\* a run without maxTicks has returned after 35040 ticks
C19_Witness ==
  /\ pc[1] = "done"
  /\ maxTicksToSimulate[1] = 35040
  /\ tick[1] = 35040
  /\ currentTick[1] = 35039

\* C20: within a tick no more energy has been delivered than one full
\* delivery per chargepoint already visited.
C20_AtMostOnePerVisited ==
  pc[1] = "chargepoints"
    => totalEnergyDeliveredThisTick[1]
         <= cpIndex[1] * ((POWER_PER_CHARGEPOINT_KW * ENERGY_SCALE) \div TICKS_PER_HOUR)

\* A step of the chargepoint loop visits the next chargepoint once and makes
\* at most one delivery, to that chargepoint's vehicle, of at most
\* powerKw / ticksPerHour.  When a vehicle arrives, assignEV puts it on the
\* chargepoint with nothing received, and the step ends as one
\* processChargingTick on that leaves it: the vehicle has received
\* min(needed, powerKw / ticksPerHour).
C20_OneDeliveryPerStep ==
  pc[1] = "chargepoints" /\ pc'[1] = "chargepoints"
    => LET i         == cpIndex[1]
           cp        == chargepoints[1][i]
           delivered == totalEnergyDeliveredThisTick'[1] - totalEnergyDeliveredThisTick[1]
           arrived   == Len(evs'[1]) > Len(evs[1])
           newEV     == Len(evs'[1])
           heap1     == Append(evs[1], ElectricVehicle(nextEvId[1], evs'[1][newEV].energyNeededKwh))
           a         == assignEV(cp, newEV, heap1)
           p         == processChargingTick(a.cp, heap1)
       IN  /\ cpIndex'[1] = i + 1
           /\ \A j \in DOMAIN chargepoints[1] \ {i} : chargepoints'[1][j] = chargepoints[1][j]
           /\ 0 <= delivered /\ delivered <= energyDeliverableThisTick(cp)
           /\ SumReceived(evs'[1]) - SumReceived(evs[1]) = delivered
           /\ \A k \in DOMAIN evs[1] :
                k # cp.currentEV => evs'[1][k] = evs[1][k]
           /\ arrived
                => /\ Len(evs'[1]) = Len(evs[1]) + 1
                   /\ isAvailable(cp)
                   /\ a.ret /\ a.cp.currentEV = newEV
                   /\ heap1[newEV].energyReceivedKwh = 0
                   /\ evs'[1] = p.heap /\ chargepoints'[1][i] = p.cp
                   /\ delivered = p.ret
                   /\ evs'[1][newEV].energyReceivedKwh =
                        Min(evs'[1][newEV].energyNeededKwh, energyDeliverableThisTick(cp))

C20_AssignThenDeliverOnce ==
  [](C20_AtMostOnePerVisited) /\ [][C20_OneDeliveryPerStep]_vars

\* the chargepoint just visited took in a vehicle needing more than one
\* delivery, which has received exactly one
C20_Witness ==
  /\ pc[1] = "chargepoints"
  /\ cpIndex[1] >= 2
  /\ Len(evs[1]) >= 2
  /\ chargepoints[1][cpIndex[1] - 1].currentEV = Len(evs[1])
  /\ evs[1][Len(evs[1])].energyReceivedKwh = energyDeliverableThisTick(chargepoints[1][cpIndex[1] - 1])
  /\ evs[1][Len(evs[1])].energyNeededKwh > evs[1][Len(evs[1])].energyReceivedKwh
  /\ totalEnergyDeliveredThisTick[1] >= evs[1][Len(evs[1])].energyReceivedKwh

\* C21: every vehicle ever created has energyNeededKwh > 0.
C21_NeedsPositive ==
  \A k \in 1 .. Len(evs[1]) : evs[1][k].energyNeededKwh > 0

\* An iteration on an idle chargepoint whose arrival draw succeeds and whose
\* demand sample is 0 km creates no vehicle, leaves the id counter, the
\* chargepoint (idle) and every vehicle as they were, and adds nothing to the
\* tick's energy and power.
C21_ZeroDemandStep ==
  LET cp == chargepoints[1][cpIndex[1]]
      d  == next(seed[1])
      w  == getWeightedRandomChoice(CHARGING_DEMAND_KM_DISTRIBUTION_T2, d.seed)
  IN  (/\ pc[1] = "chargepoints" /\ pc'[1] = "chargepoints"
       /\ isAvailable(cp)
       /\ arrivalEvent(d.value, currentHour(tick[1]))
       /\ w.value = 0)
        => /\ evs' = evs
           /\ nextEvId' = nextEvId
           /\ chargepoints' = chargepoints
           /\ isAvailable(chargepoints'[1][cpIndex[1]])
           /\ totalEnergyDeliveredThisTick' = totalEnergyDeliveredThisTick
           /\ currentPowerDemandThisTick' = currentPowerDemandThisTick

C21_ZeroDemandArrival == [](C21_NeedsPositive) /\ [][C21_ZeroDemandStep]_vars

\* the first chargepoint of the first tick has used two draws (the arrival
\* and a demand of 0 km) and is idle, and no vehicle exists
C21_Witness ==
  /\ pc[1] = "chargepoints"
  /\ tick[1] = 0
  /\ cpIndex[1] = 1
  /\ draws[1] = 2
  /\ seed[1] > 0
  /\ isAvailable(chargepoints[1][0])
  /\ evs[1] = << >>
  /\ nextEvId[1] = 1
  /\ totalEnergyDeliveredThisTick[1] = 0
  /\ currentPowerDemandThisTick[1] = 0

\* C22: the vehicles created so far, in creation order, have ids 1, 2, 3,
\* ...: each id belongs to exactly one vehicle, and the id counter is one
\* more than the number of vehicles created.
C22_IdsInOrder ==
  /\ \A k \in 1 .. Len(evs[1]) : evs[1][k].id = k
  /\ \A k, l \in 1 .. Len(evs[1]) : k # l => evs[1][k].id # evs[1][l].id
  /\ nextEvId[1] = Len(evs[1]) + 1

\* The id counter never decreases.  Steps follow arrival order: the tick
\* never decreases and within a tick the chargepoint index only grows; a step
\* creates at most one vehicle, for the chargepoint being visited, and gives
\* it the counter's value, advancing the counter by one.
C22_NextIdStep ==
  /\ nextEvId'[1] >= nextEvId[1]
  /\ tick'[1] >= tick[1]
  /\ (tick'[1] = tick[1] /\ pc[1] = "chargepoints") => cpIndex'[1] >= cpIndex[1]
  /\ Len(evs'[1]) # Len(evs[1])
       => /\ pc[1] = "chargepoints"
          /\ Len(evs'[1]) = Len(evs[1]) + 1
          /\ evs'[1][Len(evs'[1])].id = nextEvId[1]
          /\ nextEvId'[1] = nextEvId[1] + 1
          /\ cpIndex'[1] = cpIndex[1] + 1
          /\ chargepoints'[1][cpIndex[1]].currentEV \in {NULL, Len(evs'[1])}
  /\ nextEvId'[1] # nextEvId[1] => Len(evs'[1]) = Len(evs[1]) + 1

C22_SequentialIds == [](C22_IdsInOrder) /\ [][C22_NextIdStep]_vars

\* three vehicles have been created and two are on chargepoints
C22_Witness ==
  /\ Len(evs[1]) >= 3
  /\ evs[1][3].id = 3
  /\ nextEvId[1] = 4
  /\ Cardinality(Held) >= 2

\* the chargepoints of 0 .. upTo - 1 that were occupied right after their own
\* processing in tick t (ticks counted from 0), read from the history
occupiedAfterProcessing(t, upTo) ==
  LET n == Cardinality(DOMAIN chargepoints[1])
  IN  {i \in 0 .. upTo - 1 : occupancy[1][t * n + i + 1][i] # 0}

\* rated power times the number of chargepoints occupied after their
\* processing in tick t
tickPowerDemand(t) ==
  POWER_PER_CHARGEPOINT_KW
    * Cardinality(occupiedAfterProcessing(t, Cardinality(DOMAIN chargepoints[1])))

\* C23: while a tick is processed the power demand accumulated so far is the
\* rated power times the number of chargepoints visited in it that were
\* occupied after their processing, so the value fed to recordTickData is
\* that over all chargepoints; and between ticks and after the run
\* actualMaxPowerDemandKw is the largest of the per-tick values so far, 0 if
\* no tick has been processed.
C23_PowerDemand ==
  /\ pc[1] = "chargepoints"
       => currentPowerDemandThisTick[1] =
            POWER_PER_CHARGEPOINT_KW
              * Cardinality(occupiedAfterProcessing(tick[1], cpIndex[1]))
  /\ pc[1] \in {"loop", "done"}
       => /\ \A t \in 0 .. tick[1] - 1 :
               stats[1].actualMaxPowerDemandKw >= tickPowerDemand(t)
          /\ \/ tick[1] = 0 /\ stats[1].actualMaxPowerDemandKw = 0
             \/ \E t \in 0 .. tick[1] - 1 :
                  stats[1].actualMaxPowerDemandKw = tickPowerDemand(t)

\* the run is over; its maximum was reached in a tick before the last, at
\* the end of which no chargepoint was occupied
C23_Witness ==
  /\ pc[1] = "done"
  /\ tick[1] >= 2
  /\ stats[1].actualMaxPowerDemandKw > 0
  /\ tickPowerDemand(tick[1] - 1) = 0
  /\ \E t \in 0 .. tick[1] - 2 : tickPowerDemand(t) = stats[1].actualMaxPowerDemandKw

\* C24: assignEV given null, or a vehicle whose need is zero or negative,
\* returns false and does not throw, on an idle and on an occupied
\* chargepoint alike.
C24_RefusalByReturnValue ==
  (/\ lastCall.op = "assignEV"
   /\ \/ lastCall.ev = NULL
      \/ evs[1][lastCall.ev].energyNeededKwh <= 0)
    => /\ ~lastCall.threw
       /\ lastCall.flag = FALSE

\* C25: of a verbose and a quiet engine with the same numChargepoints, seed
\* and maxTicks, each run once, the one that has gone less far has passed
\* through the same occupancy states as the other did up to there; and when
\* both runs are over they have made the same number of draws and left the
\* generator's register the same, created the same vehicles and hold
\* identical statistics.
C25_TracingObservational ==
  /\ verbose[1] /\ ~verbose[2]
  /\ \A e, o \in Engines :
       Len(occupancy[e]) <= Len(occupancy[o])
         => occupancy[e] = SubSeq(occupancy[o], 1, Len(occupancy[e]))
  /\ (pc[1] = "done" /\ pc[2] = "done")
       => /\ draws[1] = draws[2]
          /\ seed[1] = seed[2]
          /\ evs[1] = evs[2]
          /\ chargepoints[1] = chargepoints[2]
          /\ nextEvId[1] = nextEvId[2]
          /\ stats[1] = stats[2]

\* both runs are over, vehicles were charged, and only the verbose engine
\* wrote to the console: more than the constructor's, the ticks' and the
\* run's own lines
C25_Witness ==
  /\ pc[1] = "done" /\ pc[2] = "done"
  /\ stats[2].totalEnergyConsumedKwh > 0
  /\ Len(evs[1]) >= 2
  /\ consoleLines[2] = 0
  /\ consoleLines[1] > 2 + 2 * tick[1] + 3 * Len(evs[1])

\* powerKw / ticksPerHour of every chargepoint, in energy units
DeliveryPerTick == energyDeliverableThisTick(Chargepoint(0))

\* ceil((E - 0.0001) / (powerKw / ticksPerHour)) for a need E
deliveriesNeeded(energyNeededKwh) ==
  (energyNeededKwh - FULL_CHARGE_EPSILON + DeliveryPerTick - 1) \div DeliveryPerTick

\* the deliveries a vehicle has had: all but the last are full ones
deliveriesMade(ev) ==
  (ev.energyReceivedKwh + DeliveryPerTick - 1) \div DeliveryPerTick

\* C26: a vehicle with need E needs ceil((E - 0.0001) / 2.75 kWh) deliveries,
\* at most 20 for every demand of the configured table; it has had at least
\* the one of its arrival tick; while it is on a chargepoint it has had fewer
\* than it needs, and once it has had them all it is fully charged and on no
\* chargepoint.
C26_HeldUntilLastDelivery ==
  /\ \A j \in 1 .. Len(CHARGING_DEMAND_KM_DISTRIBUTION_T2) :
       deliveriesNeeded(energyNeededFor(CHARGING_DEMAND_KM_DISTRIBUTION_T2[j].value)) <= 20
  /\ \A k \in 1 .. Len(evs[1]) :
       /\ 1 <= deliveriesMade(evs[1][k])
       /\ deliveriesMade(evs[1][k]) <= deliveriesNeeded(evs[1][k].energyNeededKwh)
       /\ k \in Held
            <=> deliveriesMade(evs[1][k]) < deliveriesNeeded(evs[1][k].energyNeededKwh)
       /\ k \notin Held => isFullyCharged(evs[1][k])

\* Every visit of an occupied chargepoint, one per tick, is one more delivery
\* to its vehicle, and the chargepoint is idle after the visit exactly when
\* that was the last delivery the vehicle needed.
C26_DeliveryStep ==
  LET i == cpIndex[1]
      k == chargepoints[1][i].currentEV
  IN  (pc[1] = "chargepoints" /\ pc'[1] = "chargepoints" /\ k # NULL)
        => /\ deliveriesMade(evs'[1][k]) = deliveriesMade(evs[1][k]) + 1
           /\ isAvailable(chargepoints'[1][i])
                <=> deliveriesMade(evs'[1][k]) = deliveriesNeeded(evs[1][k].energyNeededKwh)
           /\ ~isAvailable(chargepoints'[1][i]) => chargepoints'[1][i].currentEV = k

C26_EventualRelease == [](C26_HeldUntilLastDelivery) /\ [][C26_DeliveryStep]_vars

\* a vehicle that needed four deliveries or more has had them and is gone
\* from its chargepoint, and the run is not over
C26_Witness ==
  /\ pc[1] = "chargepoints"
  /\ \E k \in 1 .. Len(evs[1]) :
       /\ k \notin Held
       /\ deliveriesNeeded(evs[1][k].energyNeededKwh) >= 4
       /\ deliveriesMade(evs[1][k]) = deliveriesNeeded(evs[1][k].energyNeededKwh)

\* C27: within a tick the chargepoints are visited in ascending index order,
\* from 0.  A visit of an occupied chargepoint makes no draw.  A visit of an
\* idle one makes one draw, and one more, the demand sample, exactly when the
\* first is strictly less than hourlyProbability[hourOfDay] / ticksPerHour.
C27_VisitedInOrder ==
  pc[1] = "chargepoints"
    => /\ cpIndex[1] \in 0 .. Cardinality(DOMAIN chargepoints[1])
       /\ Len(occupancy[1]) = tick[1] * Cardinality(DOMAIN chargepoints[1]) + cpIndex[1]

C27_DrawsOfVisit ==
  /\ (pc[1] = "loop" /\ pc'[1] = "chargepoints")
       => cpIndex'[1] = 0 /\ draws' = draws /\ seed' = seed
  /\ (pc[1] = "chargepoints" /\ pc'[1] = "chargepoints")
       => LET cp     == chargepoints[1][cpIndex[1]]
              first  == TimesMod(LCG_MULTIPLIER, seed[1])
              second == TimesMod(LCG_MULTIPLIER, first)
              p      == ARRIVAL_PROBABILITY_PER_HOUR_T1[currentHour(tick[1]) + 1]
          IN  /\ cpIndex'[1] = cpIndex[1] + 1
              /\ ~isAvailable(cp) => draws' = draws /\ seed' = seed
              /\ isAvailable(cp)
                   => IF RandLess(first - 1, p, PROB_SCALE * TICKS_PER_HOUR)
                      THEN draws'[1] = draws[1] + 2 /\ seed'[1] = second
                      ELSE draws'[1] = draws[1] + 1 /\ seed'[1] = first
  /\ pc[1] \notin {"loop", "chargepoints"} \/ pc'[1] # "chargepoints"
       => draws' = draws /\ seed' = seed

C27_DrawOrder == [](C27_VisitedInOrder) /\ [][C27_DrawsOfVisit]_vars

\* two ticks or more of a station of three are over, a vehicle is on a
\* chargepoint, and fewer draws were made than one per visit: some visits were
\* of an occupied chargepoint
C27_Witness ==
  /\ pc[1] = "loop"
  /\ tick[1] >= 2
  /\ Cardinality(DOMAIN chargepoints[1]) = 3
  /\ seed[1] > 0
  /\ Cardinality(Held) >= 1
  /\ draws[1] > 3 * tick[1] - 3
  /\ draws[1] < 3 * tick[1]

\* C28: in the body of tick t the hour used for the arrival lookup is
\* floor((t mod 96) / 4); it is in 0..23, an index of the 24-entry table; it
\* is the same for the 4 ticks t - t mod 4 .. t - t mod 4 + 3 and one more
\* (modulo 24) for the tick after them; and it is the same 96 ticks later,
\* being 0 for every t that is a multiple of 96.
C28_HourOfTick ==
  pc[1] = "chargepoints"
    => LET t == tick[1]
           h == currentHour(t)
       IN  /\ h = (t % 96) \div 4
           /\ h \in 0 .. 23
           /\ Len(ARRIVAL_PROBABILITY_PER_HOUR_T1) = 24
           /\ h + 1 \in DOMAIN ARRIVAL_PROBABILITY_PER_HOUR_T1
           /\ \A j \in 0 .. 3 : currentHour((t - (t % 4)) + j) = h
           /\ currentHour((t - (t % 4)) + 4) = (h + 1) % 24
           /\ currentHour(t + 96) = h
           /\ t % 96 = 0 => h = 0

\* the first tick of the second day is being processed: the hour is back at
\* 0 after having been 23
C28_Witness ==
  /\ pc[1] = "chargepoints"
  /\ tick[1] = 96
  /\ currentTick[1] = 96
  /\ currentHour(tick[1]) = 0
  /\ currentHour(tick[1] - 1) = 23

\* C29: processChargingTick on an idle chargepoint returns 0 and changes
\* nothing: every chargepoint and every vehicle is as before.
C29_IdleTickNoOp ==
  [][\A i \in DOMAIN chargepoints[1] :
       (CallProcessChargingTick(i) /\ chargepoints[1][i].currentEV = NULL)
         => /\ lastCall'.value = 0
            /\ chargepoints' = chargepoints
            /\ chargepoints'[1][i].currentEV = NULL
            /\ evs' = evs]_vars

\* an idle chargepoint was ticked while another one was charging a vehicle
C29_Witness ==
  /\ lastCall.op = "processChargingTick"
  /\ lastCall.ev = NULL
  /\ lastCall.value = 0
  /\ chargepoints[1][lastCall.cp].currentEV = NULL
  /\ \E j \in DOMAIN chargepoints[1] :
       /\ chargepoints[1][j].currentEV # NULL
       /\ evs[1][chargepoints[1][j].currentEV].energyReceivedKwh > 0

\* C30: releaseEV leaves the chargepoint idle whether or not its vehicle was
\* fully charged, changes no vehicle and no other chargepoint, changes
\* nothing at all on an idle chargepoint, and a second releaseEV after it
\* changes nothing.
C30_ReleaseIdempotent ==
  [][\A i \in DOMAIN chargepoints[1] :
       CallReleaseEV(i)
         => /\ chargepoints'[1][i] = [chargepoints[1][i] EXCEPT !.currentEV = NULL]
            /\ \A j \in DOMAIN chargepoints[1] \ {i} :
                 chargepoints'[1][j] = chargepoints[1][j]
            /\ evs' = evs
            /\ chargepoints[1][i].currentEV = NULL => chargepoints' = chargepoints
            /\ releaseEV(chargepoints'[1][i]) = chargepoints'[1][i]]_vars

\* a vehicle that had received part of its need was released
C30_Witness ==
  /\ lastCall.op = "releaseEV"
  /\ lastCall.ev # NULL
  /\ chargepoints[1][lastCall.cp].currentEV = NULL
  /\ evs[1][lastCall.ev].energyReceivedKwh > 0
  /\ ~isFullyCharged(evs[1][lastCall.ev])

\* C31: an engine whose station has no chargepoint is rejected by the
\* constructor: it is never left constructed, run, or returned from.
C31_ZeroStationRejected == numChargepoints[1] = 0 => pc[1] = "threw"

\* C32: in run() no vehicle is dropped.  Nothing has thrown; every vehicle
\* created so far has received energy, and is either still on a chargepoint
\* or fully charged; the id counter is one more than the number of vehicles
\* created.
C32_NoVehicleDropped ==
  /\ pc[1] # "threw"
  /\ nextEvId[1] - 1 = Len(evs[1])
  /\ \A k \in 1 .. Len(evs[1]) :
       /\ evs[1][k].energyReceivedKwh > 0
       /\ k \in Held \/ isFullyCharged(evs[1][k])

\* A step that creates a vehicle calls assignEV on an idle chargepoint with
\* a vehicle of positive need; the call returns true, and the step's
\* delivery goes to that vehicle within the same tick.
C32_AssignStep ==
  Len(evs'[1]) > Len(evs[1])
    => LET i     == cpIndex[1]
           cp    == chargepoints[1][i]
           newEV == Len(evs'[1])
           heap1 == Append(evs[1], ElectricVehicle(nextEvId[1], evs'[1][newEV].energyNeededKwh))
           a     == assignEV(cp, newEV, heap1)
       IN  /\ pc[1] = "chargepoints" /\ pc'[1] = "chargepoints"
           /\ tick'[1] = tick[1]
           /\ isAvailable(cp)
           /\ heap1[newEV].energyNeededKwh > 0
           /\ a.ret /\ ~a.threw
           /\ evs'[1][newEV].energyReceivedKwh > 0
           /\ totalEnergyDeliveredThisTick'[1] - totalEnergyDeliveredThisTick[1]
                = evs'[1][newEV].energyReceivedKwh

C32_AssignNeverRefused == [](C32_NoVehicleDropped) /\ [][C32_AssignStep]_vars

\* after the first tick, the chargepoint just visited took in the vehicle
\* created last, an earlier vehicle has been released fully charged, and
\* another is still being charged
C32_Witness ==
  /\ pc[1] = "chargepoints"
  /\ tick[1] >= 1
  /\ cpIndex[1] >= 1
  /\ Len(evs[1]) >= 3
  /\ chargepoints[1][cpIndex[1] - 1].currentEV = Len(evs[1])
  /\ nextEvId[1] - 1 = Len(evs[1])
  /\ \E k \in 1 .. Len(evs[1]) - 1 : k \notin Held /\ isFullyCharged(evs[1][k])
  /\ \E k \in 1 .. Len(evs[1]) - 1 : k \in Held

\* the chargepoint loop of the current tick is over, or no tick is under way
endOfTick(e) == pc[e] \in {"loop", "done"} \/ CanTickEnd(e)

\* C33: at the end of every tick each occupied chargepoint holds a vehicle
\* that is not fully charged, received < needed - 0.0001, and that has
\* received k whole per-tick deliveries of powerKw / ticksPerHour, k >= 1.
C33_HeldNotFull ==
  endOfTick(1)
    => \A i \in DOMAIN chargepoints[1] :
         ~isAvailable(chargepoints[1][i])
           => LET cp == chargepoints[1][i]
                  ev == evs[1][cp.currentEV]
              IN  /\ ev.energyReceivedKwh < ev.energyNeededKwh - FULL_CHARGE_EPSILON
                  /\ ~isFullyCharged(ev)
                  /\ ev.energyReceivedKwh > 0
                  /\ \E k \in 1 .. tick[1] + 1 :
                       ev.energyReceivedKwh * TICKS_PER_HOUR
                         = k * cp.powerKw * ENERGY_SCALE

\* No fully charged vehicle is carried over a tick boundary: when the tick
\* counter advances, every vehicle on a chargepoint is short of its need.
C33_BoundaryStep ==
  tick'[1] = tick[1] + 1
    => \A k \in 1 .. Len(evs'[1]) :
         isFullyCharged(evs'[1][k]) => k \notin {chargepoints'[1][i].currentEV :
                                                   i \in DOMAIN chargepoints'[1]}

C33_NeverHeldFull == [](C33_HeldNotFull) /\ [][C33_BoundaryStep]_vars

\* a tick has just ended with one vehicle on a chargepoint after two or more
\* full deliveries and another vehicle released fully charged
C33_Witness ==
  /\ pc[1] = "loop"
  /\ tick[1] >= 2
  /\ \E i \in DOMAIN chargepoints[1] :
       /\ ~isAvailable(chargepoints[1][i])
       /\ evs[1][chargepoints[1][i].currentEV].energyReceivedKwh
            >= 2 * energyDeliverableThisTick(chargepoints[1][i])
  /\ \E k \in 1 .. Len(evs[1]) : k \notin Held /\ isFullyCharged(evs[1][k])

\* C34: a visit that leaves the chargepoint idle after a delivery, whether
\* the vehicle was already there or arrived, was assigned and was released
\* within the visit, adds that delivery to the tick's energy total and
\* nothing to the tick's power demand.
C34_CompletionStep ==
  LET i         == cpIndex[1]
      delivered == totalEnergyDeliveredThisTick'[1] - totalEnergyDeliveredThisTick[1]
      before    == SumReceived(evs[1])
      after     == SumReceived(evs'[1])
  IN  (pc[1] = "chargepoints" /\ pc'[1] = "chargepoints"
         /\ isAvailable(chargepoints'[1][i]) /\ after > before)
        => /\ delivered = after - before
           /\ delivered > 0
           /\ currentPowerDemandThisTick'[1] = currentPowerDemandThisTick[1]

\* A tick all of whose deliveries were last ones is recorded with its energy
\* and with power demand 0: it adds to totalEnergyConsumedKwh and leaves
\* actualMaxPowerDemandKw alone.
C34_RecordStep ==
  (CanTickEnd(1) /\ tick'[1] = tick[1] + 1 /\ Held = { })
    => /\ currentPowerDemandThisTick[1] = 0
       /\ stats'[1].totalEnergyConsumedKwh
            = stats[1].totalEnergyConsumedKwh + totalEnergyDeliveredThisTick[1]
       /\ stats'[1].actualMaxPowerDemandKw = stats[1].actualMaxPowerDemandKw

C34_EnergyWithoutPower ==
  [][C34_CompletionStep]_vars /\ [][C34_RecordStep]_vars

\* the chargepoint loop of a tick is over with energy delivered and no power
\* demand: a vehicle needing at most one delivery arrived and left within the
\* tick
C34_Witness ==
  /\ CanTickEnd(1)
  /\ totalEnergyDeliveredThisTick[1] > 0
  /\ currentPowerDemandThisTick[1] = 0
  /\ \E k \in 1 .. Len(evs[1]) :
       /\ k \notin Held
       /\ evs[1][k].energyNeededKwh <= DeliveryPerTick
       /\ evs[1][k].energyReceivedKwh = totalEnergyDeliveredThisTick[1]

\* the ids of the vehicles created in tick t (ticks counted from 0) at the
\* chargepoints 0 .. upTo - 1, read from the history
createdInTick(t, upTo) ==
  LET n == Cardinality(DOMAIN chargepoints[1])
  IN  {created[1][t * n + i + 1] : i \in 0 .. upTo - 1} \ {0}

\* C35: every chargepoint is visited once per tick and every vehicle was
\* created in exactly one visit, so a tick creates at most one vehicle per
\* chargepoint and at most numChargepoints vehicles in all.
C35_OnePerVisit ==
  LET n == Cardinality(DOMAIN chargepoints[1])
  IN  pc[1] \in {"loop", "chargepoints", "done"}
        => /\ Len(created[1]) = tick[1] * n + (IF pc[1] = "chargepoints" THEN cpIndex[1] ELSE 0)
           /\ \A k \in 1 .. Len(evs[1]) :
                Cardinality({j \in 1 .. Len(created[1]) : created[1][j] = evs[1][k].id}) = 1
           /\ \A j \in 1 .. Len(created[1]) :
                created[1][j] # 0 => \E k \in 1 .. Len(evs[1]) : evs[1][k].id = created[1][j]
           /\ \A t \in 0 .. tick[1] - 1 :
                Cardinality(createdInTick(t, n)) <= numChargepoints[1]
           /\ pc[1] = "chargepoints"
                => Cardinality(createdInTick(tick[1], cpIndex[1])) <= cpIndex[1]

\* A visit of a chargepoint that was occupied at its start makes no draw and
\* creates no vehicle, also when it ends with the vehicle released: the
\* chargepoint gets its next arrival roll in a later tick.  No visit creates
\* more than one vehicle.
C35_VisitStep ==
  (pc[1] = "chargepoints" /\ pc'[1] = "chargepoints")
    => LET i == cpIndex[1]
       IN  /\ Len(evs'[1]) \in {Len(evs[1]), Len(evs[1]) + 1}
           /\ cpIndex'[1] = i + 1
           /\ ~isAvailable(chargepoints[1][i])
                => /\ draws'[1] = draws[1]
                   /\ seed'[1] = seed[1]
                   /\ Len(evs'[1]) = Len(evs[1])
                   /\ nextEvId'[1] = nextEvId[1]
                   /\ created'[1][Len(created'[1])] = 0

C35_OneArrivalPerTick == [](C35_OnePerVisit) /\ [][C35_VisitStep]_vars

\* the chargepoint just visited was occupied when the tick began and has
\* released its vehicle in the visit, in which no vehicle was created
C35_Witness ==
  LET n == Cardinality(DOMAIN chargepoints[1])
      i == cpIndex[1] - 1
  IN  /\ pc[1] = "chargepoints"
      /\ tick[1] >= 1
      /\ cpIndex[1] >= 1
      /\ occupancy[1][(tick[1] - 1) * n + i + 1][i] # 0
      /\ isAvailable(chargepoints[1][i])
      /\ created[1][Len(created[1])] = 0
      /\ \E t \in 0 .. tick[1] - 1 : Cardinality(createdInTick(t, n)) = 1

\* numChargepoints * POWER_PER_CHARGEPOINT_KW
theoreticalMaxPowerDemand(e) == numChargepoints[e] * POWER_PER_CHARGEPOINT_KW

\* C36: actualMaxPowerDemandKw is k * powerKw for an integer k with
\* 0 <= k <= numChargepoints, so it never exceeds the theoretical maximum;
\* so is the power demand accumulated within a tick; and the energy
\* delivered within a tick is between 0 and
\* numChargepoints * powerKw / ticksPerHour.
C36_WithinTheoreticalMax ==
  /\ \E k \in 0 .. numChargepoints[1] :
       stats[1].actualMaxPowerDemandKw = k * POWER_PER_CHARGEPOINT_KW
  /\ stats[1].actualMaxPowerDemandKw <= theoreticalMaxPowerDemand(1)
  /\ \E k \in 0 .. numChargepoints[1] :
       currentPowerDemandThisTick[1] = k * POWER_PER_CHARGEPOINT_KW
  /\ 0 <= totalEnergyDeliveredThisTick[1]
  /\ totalEnergyDeliveredThisTick[1] * TICKS_PER_HOUR
       <= theoreticalMaxPowerDemand(1) * ENERGY_SCALE

\* The energy a tick adds to totalEnergyConsumedKwh is within the same
\* bounds.
C36_RecordedEnergyStep ==
  LET added == stats'[1].totalEnergyConsumedKwh - stats[1].totalEnergyConsumedKwh
  IN  /\ 0 <= added
      /\ added * TICKS_PER_HOUR <= theoreticalMaxPowerDemand(1) * ENERGY_SCALE
      /\ tick'[1] = tick[1] => added = 0

C36_PowerAndEnergyBounds ==
  [](C36_WithinTheoreticalMax) /\ [][C36_RecordedEnergyStep]_vars

\* two of the three chargepoints of a station were occupied at the end of a
\* tick in which each of them had a delivery
C36_Witness ==
  /\ numChargepoints[1] = 3
  /\ stats[1].actualMaxPowerDemandKw = 2 * POWER_PER_CHARGEPOINT_KW
  /\ currentPowerDemandThisTick[1] = stats[1].actualMaxPowerDemandKw
  /\ totalEnergyDeliveredThisTick[1] * TICKS_PER_HOUR
       = 2 * POWER_PER_CHARGEPOINT_KW * ENERGY_SCALE
  /\ pc[1] = "loop"

\* C37: the second call of run() keeps the statistics, the chargepoints and
\* their vehicles, the generator's register and the id counter as the first
\* call left them, and restarts only the tick counter, at 0.
C37_SecondCallStep ==
  (pc[1] = "done" /\ pc'[1] = "loop")
    => /\ tick'[1] = 0
       /\ stats'[1] = stats[1]
       /\ chargepoints'[1] = chargepoints[1]
       /\ evs'[1] = evs[1]
       /\ seed'[1] = seed[1]
       /\ draws'[1] = draws[1]
       /\ nextEvId'[1] = nextEvId[1]

\* Once engine 1, with maxTicks N a multiple of 96, has returned from its
\* second run and engine 2, with maxTicks 2N, from its only run, the two have
\* the same totalEnergyConsumedKwh and actualMaxPowerDemandKw, the same
\* chargepoints holding the same vehicles, the same generator register and
\* the same id counter.
C37_SameAsOneLongRun ==
  (pc[1] = "done" /\ lastCall.op = "run" /\ pc[2] = "done")
    => /\ maxTicksToSimulate[1] % TICKS_PER_DAY = 0
       /\ maxTicksToSimulate[2] = 2 * maxTicksToSimulate[1]
       /\ stats[1].totalEnergyConsumedKwh = stats[2].totalEnergyConsumedKwh
       /\ stats[1].actualMaxPowerDemandKw = stats[2].actualMaxPowerDemandKw
       /\ chargepoints[1] = chargepoints[2]
       /\ evs[1] = evs[2]
       /\ seed[1] = seed[2]
       /\ draws[1] = draws[2]
       /\ nextEvId[1] = nextEvId[2]
       /\ occupancy[1] = occupancy[2]

C37_RunTwice == [](C37_SameAsOneLongRun) /\ [][C37_SecondCallStep]_vars

\* both engines are done, engine 1 after two runs: its first run ended with
\* a vehicle on a chargepoint, and its second run finished charging that
\* vehicle and created another
C37_Witness ==
  /\ pc[1] = "done" /\ lastCall.op = "run" /\ pc[2] = "done"
  /\ numChargepoints[1] >= 1
  /\ LET n == numChargepoints[1]
         N == maxTicksToSimulate[1]
     IN  /\ \E i \in DOMAIN chargepoints[1] :
              /\ occupancy[1][N * n][i] # 0
              /\ occupancy[1][N * n][i] \notin {occupancy[1][2 * N * n][j] :
                                                 j \in DOMAIN chargepoints[1]}
         /\ \E j \in N * n + 1 .. 2 * N * n : created[1][j] # 0
  /\ stats[1].totalEnergyConsumedKwh > 0
  /\ stats[1].totalEnergyConsumedKwh = stats[2].totalEnergyConsumedKwh

\* the methods of a chargepoint that change state
ChargepointMutators == {"assignEV", "processChargingTick", "releaseEV"}

\* what a call on chargepoint i leaves alone whichever vehicle it holds: the
\* chargepoint's id and rating, every other chargepoint's record, the number
\* of vehicles and their ids and needs, the generator, the id counter, the
\* statistics and the run's other fields
frameOfCall(i) ==
  /\ chargepoints'[1][i].id = chargepoints[1][i].id
  /\ chargepoints'[1][i].powerKw = chargepoints[1][i].powerKw
  /\ DOMAIN chargepoints'[1] = DOMAIN chargepoints[1]
  /\ \A j \in DOMAIN chargepoints[1] \ {i} : chargepoints'[1][j] = chargepoints[1][j]
  /\ chargepoints'[2] = chargepoints[2] /\ evs'[2] = evs[2]
  /\ Len(evs'[1]) = Len(evs[1])
  /\ \A k \in 1 .. Len(evs[1]) :
       /\ evs'[1][k].id = evs[1][k].id
       /\ evs'[1][k].energyNeededKwh = evs[1][k].energyNeededKwh
  /\ seed' = seed /\ draws' = draws
  /\ nextEvId' = nextEvId
  /\ stats' = stats
  /\ UNCHANGED << configVars, runVars >>

\* C38 as stated: a call of assignEV, processChargingTick or releaseEV on
\* chargepoint i leaves every other chargepoint and the vehicle it holds
\* unchanged, as well as the generator, the id counter and the statistics.
C38_OthersUntouchedStep ==
  lastCall'.op \in ChargepointMutators
    => LET i == lastCall'.cp
       IN  /\ frameOfCall(i)
           /\ \A j \in DOMAIN chargepoints[1] \ {i} :
                chargepoints[1][j].currentEV # NULL
                  => evs'[1][chargepoints[1][j].currentEV]
                       = evs[1][chargepoints[1][j].currentEV]

C38_FrameStep ==
  lastCall'.op \in ChargepointMutators
    => LET i    == lastCall'.cp
           held == chargepoints[1][i].currentEV
       IN  /\ frameOfCall(i)
           /\ \A k \in 1 .. Len(evs[1]) : k # held => evs'[1][k] = evs[1][k]
           /\ \A j \in DOMAIN chargepoints[1] \ {i} :
                (chargepoints[1][j].currentEV # NULL
                   /\ chargepoints[1][j].currentEV # held)
                  => evs'[1][chargepoints[1][j].currentEV]
                       = evs[1][chargepoints[1][j].currentEV]
           /\ lastCall'.op # "processChargingTick" => evs' = evs

C39_MonthsAddUp ==
  lastCall.op = "runSimulationAction"
    => /\ lastCall.numChargingSessions = nextEvId[1] - 1
       /\ lastCall.numChargingSessions = Len(evs[1])
       /\ lastCall.at = "months"
            => /\ Len(lastCall.perMonth) <= 11
               /\ lastCall.remainingSessions
                    = lastCall.numChargingSessions - SumSeq(lastCall.perMonth)
       /\ lastCall.at = "returned"
            => /\ Len(lastCall.perMonth) = 12
               /\ SumSeq(lastCall.perMonth) = lastCall.numChargingSessions

\* the action has returned for a run of ten sessions or more whose first 11
\* months were given more sessions than there are, so that the last month
\* was corrected by the difference
C39_Witness ==
  /\ lastCall.op = "runSimulationAction"
  /\ lastCall.at = "returned"
  /\ lastCall.numChargingSessions >= 10
  /\ SumSeq(SubSeq(lastCall.perMonth, 1, 11)) > lastCall.numChargingSessions
  /\ SumSeq(lastCall.perMonth) = lastCall.numChargingSessions

====
